---- MODULE Spec2Model ----
(***************************************************************************)
(* A model of the yazm Z-machine interpreter: the story image and its      *)
(* header view, call frames and variable addressing, call/return, branch   *)
(* processing, the arithmetic opcodes and the Quetzal save/restore code.   *)
(* A Python exception is modelled by the field exc of the machine record:  *)
(* the empty string when the operation completed, the exception's type     *)
(* name otherwise; what the operation had already written stays written.   *)
(***************************************************************************)
EXTENDS Integers, Sequences, FiniteSets, TLC

VARIABLES
    version,            \* ZMachine.version, captured at construction
    memory,             \* ZMachine.memory (ZData), a function 0..len-1 -> byte
    pc,                 \* ZMachine.pc
    frames,             \* ZMachine.frames, bottom frame first
    original_dynamic,   \* ZMachine.original_dynamic
    exc,                \* exception raised by the last operation ("" if none)
    op,                 \* the last operation and its inputs / results
    steps,              \* number of operations performed since load
    savefile,           \* bytes returned by the last quetzal.save (<<>> if none)
    snap                \* the machine state in which savefile was produced

vars == <<version, memory, pc, frames, original_dynamic, exc, op, steps,
          savefile, snap>>

\* Python's None for the optional integers (Frame.store, Instruction.store,
\* Branch.returns, Branch.address).
None == 0 - 1

----------------------------------------------------------------------------
(* Bounds of the model *)

\* operations performed after load in the call/return specification
MaxSteps == 3

\* operations performed after load in the variable-addressing specification
MaxVarSteps == 3

\* operations performed after load in the branch specification
MaxBranchSteps == 3

\* operations performed after load in the arithmetic specification
MaxArithSteps == 1

\* operations performed after load in the save/restore specification
MaxQSteps == 4

\* conversions performed in the specification of utils
MaxUtilSteps == 1

\* insert_obj / remove_obj calls in the object-tree specification
MaxTreeSteps == 2

\* attribute operations in the attribute specification
MaxAttrSteps == 1

\* get_next_prop calls in the property specification
MaxPropSteps == 1

\* decode calls in the decoder specification
MaxDecodeSteps == 1

\* tokenise calls in the tokeniser specification
MaxTokSteps == 1

----------------------------------------------------------------------------
(* The story image used by the model: a 64-byte header, 240 globals from    *)
(* address 64, static memory from 544 holding four routine headers and an   *)
(* empty dictionary at 624.                                                 *)

StoryLen == 40 * 16

RoutineA == 34 * 16          \* 2 locals, initial values 17 and 34
RoutineB == 34 * 16 + 8      \* 1 local, initial value 43981
RoutineC == 35 * 16          \* 15 locals, initial values 257..271
RoutineD == 37 * 16          \* 16 locals

StoryByte(v, a) ==
    CASE a = 0  -> v                 \* version
      [] a = 2  -> 1                 \* release = 258
      [] a = 3  -> 2
      [] a = 6  -> 2                 \* initial pc = 549
      [] a = 7  -> 37
      [] a = 8  -> 2                 \* dictionary (empty) at 624
      [] a = 9  -> 112
      [] a = 13 -> 64                \* globals base = 64
      [] a = 14 -> 2                 \* static memory base = 544
      [] a = 15 -> 32
      [] a \in 18..23 -> 31 + a      \* serial "123456"
      [] a = 27 -> 160               \* file length word
      [] a = 28 -> 190               \* checksum = 48879
      [] a = 29 -> 239
      [] a = 64 -> 18                \* global 0 = 4660
      [] a = 65 -> 52
      [] a = RoutineA -> 2
      [] a = RoutineA + 2 -> 17
      [] a = RoutineA + 4 -> 34
      [] a = RoutineB -> 1
      [] a = RoutineB + 1 -> 171
      [] a = RoutineB + 2 -> 205
      [] a = RoutineC -> 15
      [] a \in (RoutineC + 1)..(RoutineC + 30) ->
            IF (a - RoutineC) % 2 = 1 THEN 1 ELSE (a - RoutineC) \div 2
      [] a = RoutineD -> 16
      [] OTHER -> 0

Story(v) == [a \in 0..(StoryLen - 1) |-> StoryByte(v, a)]

----------------------------------------------------------------------------
(* ZData: the byte buffer *)

Min(a, b) == IF a < b THEN a ELSE b

Raise(z, e) == [z EXCEPT !.exc = e]

InMem(mem, index) == index \in DOMAIN mem

\* ZData.u8 / ZData.u16; callers check InMem first (Python raises IndexError)
zd_u8(mem, index) == mem[index]

zd_u16(mem, index) == mem[index] * 256 + mem[index + 1]

\* ZData.write_u8 on the machine record
zd_write_u8(z, index, value) ==
    IF ~InMem(z.memory, index) THEN Raise(z, "IndexError")
    ELSE IF value \notin 0..255 THEN Raise(z, "ValueError")
    ELSE [z EXCEPT !.memory[index] = value]

\* ZData.write_u16: the high byte is stored before the low byte is attempted
zd_write_u16(z, index, value) ==
    IF ~InMem(z.memory, index) THEN Raise(z, "IndexError")
    ELSE LET z1 == [z EXCEPT !.memory[index] = (value \div 256) % 256]
         IN  IF ~InMem(z.memory, index + 1) THEN Raise(z1, "IndexError")
             ELSE [z1 EXCEPT !.memory[index + 1] = value % 256]

----------------------------------------------------------------------------
(* Header: a view recomputed from memory at every access *)

header_release(mem) == zd_u16(mem, 2)

header_pc(mem) == zd_u16(mem, 6)

header_global_variable_addr(mem) == zd_u16(mem, 12)

header_static_memory_addr(mem) == zd_u16(mem, 14)

header_serial_number(mem) == [i \in 1..6 |-> mem[17 + i]]

header_checksum(mem) == zd_u16(mem, 28)

header_routine_offset(mem) == zd_u16(mem, 40)

----------------------------------------------------------------------------
(* Frame *)

\* mutant: the argument with the last index is not copied into its local
Frame_init_LastArgDropped(resume, store, locals_, arguments) ==
    [resume    |-> resume,
     store     |-> store,
     locals    |-> [i \in 1..Len(locals_) |->
                        IF Len(arguments) > i THEN arguments[i] ELSE locals_[i]],
     stack     |-> <<>>,
     arg_count |-> Len(arguments)]

Frame_init(resume, store, locals_, arguments) ==
    [resume    |-> resume,
     store     |-> store,
     locals    |-> [i \in 1..Len(locals_) |->
                        IF Len(arguments) >= i THEN arguments[i] ELSE locals_[i]],
     stack     |-> <<>>,
     arg_count |-> Len(arguments)]

\* bytes_[a:b] of Python, on a 1-based sequence
Slice(s, a, b) == SubSeq(s, a + 1, Min(b, Len(s)))

RECURSIVE Concat(_)
Concat(ss) == IF Len(ss) = 0 THEN <<>> ELSE ss[1] \o Concat(SubSeq(ss, 2, Len(ss)))

\* the two bytes (big-endian) that to_list appends for a 16-bit value
WordBytes(w) == <<(w \div 256) % 256, w % 256>>

\* args_supplied after `for bit in range(arg_count): args_supplied |= 1 << bit`
RECURSIVE ArgMask(_)
ArgMask(n) == IF n <= 0 THEN 0 ELSE 2 * ArgMask(n - 1) + 1

\* the number of bits 0..6 set in mask
RECURSIVE CountBits(_, _)
CountBits(mask, bits) ==
    IF bits = 0 THEN 0 ELSE (mask % 2) + CountBits(mask \div 2, bits - 1)

\* Frame.to_list; `self.store` is tested for truth, `self.store or 0` written
Frame_to_list(f) ==
    LET truthy == f.store # None /\ f.store # 0
        flags == Len(f.locals) + (IF truthy THEN 16 ELSE 0)
    IN  <<(f.resume \div 65536) % 256, (f.resume \div 256) % 256, f.resume % 256,
          flags,
          IF truthy THEN f.store ELSE 0,
          ArgMask(f.arg_count),
          (Len(f.stack) \div 256) % 256, Len(f.stack) % 256>>
        \o Concat([i \in 1..Len(f.locals) |-> WordBytes(f.locals[i])])
        \o Concat([i \in 1..Len(f.stack) |-> WordBytes(f.stack[i])])

\* Frame.from_bytes: the stack words are read but the new frame is built by
\* Frame.__init__, whose stack is empty
Frame_from_bytes(bytes_) ==
    LET resume == bytes_[1] * 65536 + bytes_[2] * 256 + bytes_[3]
        flags == bytes_[4]
        has_store == (flags \div 16) % 2 = 0
        num_locals == flags % 16
        store == IF has_store THEN bytes_[5] ELSE None
        arg_count == CountBits(bytes_[6], 7)
        locals_ == [o \in 1..num_locals |->
                        bytes_[8 + 2 * o - 1] * 256 + bytes_[8 + 2 * o]]
    IN  [Frame_init(resume, store, locals_, <<>>) EXCEPT !.arg_count = arg_count]

----------------------------------------------------------------------------
(* ZMachine: frame stack and variable addressing.  Operations that return  *)
(* a value yield a record [z, val]; val is None when an exception was      *)
(* raised.                                                                 *)

Ok(z) == z.exc = ""

Top(z) == z.frames[Len(z.frames)]

stack_push(z, value) ==
    IF Len(z.frames) = 0 THEN Raise(z, "IndexError")
    ELSE [z EXCEPT !.frames[Len(z.frames)].stack = Append(@, value)]

stack_pop(z) ==
    IF Len(z.frames) = 0 \/ Len(Top(z).stack) = 0
    THEN [z |-> Raise(z, "IndexError"), val |-> None]
    ELSE [z   |-> [z EXCEPT !.frames[Len(z.frames)].stack =
                                SubSeq(@, 1, Len(@) - 1)],
          val |-> Top(z).stack[Len(Top(z).stack)]]

stack_peek(z) ==
    IF Len(z.frames) = 0 \/ Len(Top(z).stack) = 0
    THEN [z |-> Raise(z, "IndexError"), val |-> None]
    ELSE [z |-> z, val |-> Top(z).stack[Len(Top(z).stack)]]

read_local(z, index) ==
    IF Len(z.frames) = 0 \/ index >= Len(Top(z).locals)
    THEN [z |-> Raise(z, "IndexError"), val |-> None]
    ELSE [z |-> z, val |-> Top(z).locals[index + 1]]

write_local(z, index, value) ==
    IF Len(z.frames) = 0 \/ index >= Len(Top(z).locals)
    THEN Raise(z, "IndexError")
    ELSE [z EXCEPT !.frames[Len(z.frames)].locals[index + 1] = value]

read_global(z, index) ==
    IF index > 240 THEN [z |-> Raise(z, "Exception"), val |-> None]
    ELSE LET addr == header_global_variable_addr(z.memory) + index * 2
         IN  IF InMem(z.memory, addr) /\ InMem(z.memory, addr + 1)
             THEN [z |-> z, val |-> zd_u16(z.memory, addr)]
             ELSE [z |-> Raise(z, "IndexError"), val |-> None]

write_global(z, index, value) ==
    IF index > 240 THEN Raise(z, "Exception")
    ELSE zd_write_u16(z, header_global_variable_addr(z.memory) + index * 2, value)

read_variable(z, index) ==
    IF index = 0 THEN stack_pop(z)
    ELSE IF 1 <= index /\ index <= 15 THEN read_local(z, index - 1)
    ELSE IF 16 <= index /\ index <= 255 THEN read_global(z, index - 16)
    ELSE [z |-> Raise(z, "Exception"), val |-> None]

\* mutant: the indirect read of variable 0 pops like the direct read
read_indirect_variable_Pops(z, index) == read_variable(z, index)

read_indirect_variable(z, index) ==
    IF index = 0 THEN stack_peek(z)
    ELSE IF 1 <= index /\ index <= 15 THEN read_local(z, index - 1)
    ELSE IF 16 <= index /\ index <= 255 THEN read_global(z, index - 16)
    ELSE [z |-> Raise(z, "Exception"), val |-> None]

write_variable(z, index, value) ==
    IF index = 0 THEN stack_push(z, value)
    ELSE IF 1 <= index /\ index <= 15 THEN write_local(z, index - 1, value)
    ELSE IF 16 <= index /\ index <= 255 THEN write_global(z, index - 16, value)
    ELSE Raise(z, "Exception")

write_indirect_variable(z, index, value) ==
    IF index = 0
    THEN LET p == stack_pop(z)
         IN  IF Ok(p.z) THEN stack_push(p.z, value) ELSE p.z
    ELSE IF 1 <= index /\ index <= 15 THEN write_local(z, index - 1, value)
    ELSE IF 16 <= index /\ index <= 255 THEN write_global(z, index - 16, value)
    ELSE Raise(z, "Exception")

----------------------------------------------------------------------------
(* Instructions, branches, call and return *)

\* Branch(condition, address, returns); present = FALSE stands for
\* Instruction.branch = None
NoBranch ==
    [present |-> FALSE, condition |-> FALSE, address |-> None, returns |-> None]

BranchTo(condition, address) ==
    [present |-> TRUE, condition |-> condition, address |-> address,
     returns |-> None]

BranchRet(condition, returns) ==
    [present |-> TRUE, condition |-> condition, address |-> None,
     returns |-> returns]

\* the fields of Instruction the handlers read
Instr(store, branch, next_) == [store |-> store, branch |-> branch, next_ |-> next_]

\* mutant: the store variable is tested for truth, so variable 0 is skipped
return_from_routine_Truthy(z, value) ==
    IF Len(z.frames) = 0 THEN Raise(z, "IndexError")
    ELSE LET frame == Top(z)
             z1 == [z EXCEPT !.frames = SubSeq(@, 1, Len(@) - 1),
                             !.pc = frame.resume]
         IN  IF frame.store # None /\ frame.store # 0
             THEN write_variable(z1, frame.store, value)
             ELSE z1

return_from_routine(z, value) ==
    IF Len(z.frames) = 0 THEN Raise(z, "IndexError")
    ELSE LET frame == Top(z)
             z1 == [z EXCEPT !.frames = SubSeq(@, 1, Len(@) - 1),
                             !.pc = frame.resume]
         IN  IF frame.store # None THEN write_variable(z1, frame.store, value)
             ELSE z1

\* mutant: the branch record's condition flag is ignored
process_branch_NoCondition(z, branch, next_, result) ==
    IF result
    THEN IF branch.returns # None
         THEN return_from_routine(z, branch.returns)
         ELSE [z EXCEPT !.pc = branch.address]
    ELSE [z EXCEPT !.pc = next_]

process_branch(z, branch, next_, result) ==
    LET do_branch == (result /\ branch.condition) \/ (~result /\ ~branch.condition)
    IN  IF do_branch
        THEN IF branch.returns # None
             THEN return_from_routine(z, branch.returns)
             ELSE [z EXCEPT !.pc = branch.address]
        ELSE [z EXCEPT !.pc = next_]

\* mutant: the store variable is tested for truth, so variable 0 is skipped
process_result_Truthy(z, instr, value) ==
    LET z1 == IF instr.store # None /\ instr.store # 0
              THEN write_variable(z, instr.store, value % 65536)
              ELSE z
    IN  IF ~Ok(z1) THEN z1
        ELSE IF instr.branch.present
        THEN process_branch(z1, instr.branch, instr.next_, value # 0)
        ELSE [z1 EXCEPT !.pc = instr.next_]

process_result(z, instr, value) ==
    LET z1 == IF instr.store # None
              THEN write_variable(z, instr.store, value % 65536)
              ELSE z
    IN  IF ~Ok(z1) THEN z1
        ELSE IF instr.branch.present
        THEN process_branch(z1, instr.branch, instr.next_, value # 0)
        ELSE [z1 EXCEPT !.pc = instr.next_]

unpack(v, addr) ==
    IF v \in {1, 2, 3} THEN addr * 2
    ELSE IF v \in {4, 5, 6, 7} THEN addr * 4
    ELSE IF v = 8 THEN addr * 8
    ELSE None

unpack_routine_addr(z, addr) ==
    LET x_addr == unpack(z.version, addr)
    IN  IF x_addr \in {6, 7}
        THEN x_addr + header_routine_offset(z.memory) * 8
        ELSE x_addr

\* the words read by the loop of do_call for versions 1-4
RECURSIVE read_words(_, _, _)
read_words(mem, addr, count) ==
    IF count = 0 THEN <<>>
    ELSE <<zd_u16(mem, addr)>> \o read_words(mem, addr + 2, count - 1)

do_call(z, instr, addr, args) ==
    IF addr = 0 THEN process_result(z, instr, 0)
    ELSE LET routine_addr == unpack_routine_addr(z, addr)
         IN  IF routine_addr = None THEN Raise(z, "TypeError")
             ELSE IF ~InMem(z.memory, routine_addr) THEN Raise(z, "IndexError")
             ELSE LET count == zd_u8(z.memory, routine_addr)
                      first_instr == IF z.version <= 4
                                     THEN routine_addr + 1 + 2 * count
                                     ELSE routine_addr + 1
                  IN  IF z.version <= 4 /\ count > 0
                         /\ ~InMem(z.memory, routine_addr + 2 * count)
                      THEN Raise(z, "IndexError")
                      ELSE LET locals_ ==
                                  IF z.version <= 4
                                  THEN read_words(z.memory, routine_addr + 1, count)
                                  ELSE [i \in 1..count |-> 0]
                               frame == Frame_init(instr.next_, instr.store,
                                                   locals_, args)
                           IN  [z EXCEPT !.pc = first_instr,
                                         !.frames = Append(@, frame)]

Tail_(s) == IF Len(s) = 0 THEN <<>> ELSE SubSeq(s, 2, Len(s))

op_call(z, instr, args) ==
    IF Len(args) = 0 THEN process_result(z, instr, 0)
    ELSE do_call(z, instr, args[1], Tail_(args))

op_ret(z, instr, args) == return_from_routine(z, args[1])

op_rtrue(z, instr, args) == return_from_routine(z, 1)

op_rfalse(z, instr, args) == return_from_routine(z, 0)

op_ret_popped(z, instr, args) ==
    LET p == stack_pop(z)
    IN  IF Ok(p.z) THEN return_from_routine(p.z, p.val) ELSE p.z

op_push(z, instr, args) ==
    LET z1 == stack_push(z, args[1])
    IN  IF Ok(z1) THEN [z1 EXCEPT !.pc = instr.next_] ELSE z1

\* args[0] in args[1:]
InRest(args) == \E i \in 2..Len(args) : args[i] = args[1]

op_je(z, instr, args) == process_branch(z, instr.branch, instr.next_, InRest(args))

op_jz(z, instr, args) == process_branch(z, instr.branch, instr.next_, args[1] = 0)

\* utils.from_u16_to_i16: bit 15 negates the low 15 bits
from_u16_to_i16(value) ==
    IF (value \div 32768) % 2 = 1 THEN (0 - 1) * (value % 32768) ELSE value

\* ops.u16: value & 0xFFFF
u16(value) == value % 65536

\* int(a / b): the quotient truncated toward zero (b # 0)
int_div(a, b) ==
    LET abs(x) == IF x < 0 THEN 0 - x ELSE x
        q == abs(a) \div abs(b)
    IN  IF (a < 0) = (b < 0) THEN q ELSE 0 - q

op_add(z, instr, args) ==
    LET result == from_u16_to_i16(args[1]) + from_u16_to_i16(args[2])
    IN  process_result(z, instr, u16(result))

op_sub(z, instr, args) ==
    LET result == from_u16_to_i16(args[1]) - from_u16_to_i16(args[2])
    IN  process_result(z, instr, u16(result))

op_mul(z, instr, args) ==
    LET result == from_u16_to_i16(args[1]) * from_u16_to_i16(args[2])
    IN  process_result(z, instr, u16(result))

op_div(z, instr, args) ==
    LET a == from_u16_to_i16(args[1])
        b == from_u16_to_i16(args[2])
    IN  IF b = 0 THEN Raise(z, "Exception")
        ELSE process_result(z, instr, u16(int_div(a, b)))

op_mod_StoresBeforeCheck(z, instr, args) ==
    LET a == from_u16_to_i16(args[1])
        b == from_u16_to_i16(args[2])
    IN  IF b = 0 THEN Raise(process_result(z, instr, 0), "Exception")
        ELSE process_result(z, instr, u16(a - int_div(a, b) * b))

op_mod(z, instr, args) ==
    LET a == from_u16_to_i16(args[1])
        b == from_u16_to_i16(args[2])
    IN  IF b = 0 THEN Raise(z, "Exception")
        ELSE process_result(z, instr, u16(a - int_div(a, b) * b))

op_storew(z, instr, args) ==
    LET addr == u16(args[1] + 2 * from_u16_to_i16(args[2]))
        z1 == zd_write_u16(z, addr, args[3])
    IN  IF Ok(z1) THEN [z1 EXCEPT !.pc = instr.next_] ELSE z1

op_storeb(z, instr, args) ==
    LET addr == u16(args[1] + from_u16_to_i16(args[2]))
        z1 == zd_write_u8(z, addr, args[3] % 256)
    IN  IF Ok(z1) THEN [z1 EXCEPT !.pc = instr.next_] ELSE z1

----------------------------------------------------------------------------
(* quetzal: the IFF FORM/IFZS save-file format.  A byte string is a         *)
(* 1-based sequence of 0..255; a chunk id is a four-byte string.  The      *)
(* dict returned by _parse_chunks is the sequence of its (id, data)         *)
(* assignments in order: a later assignment to the same id wins.           *)

FORM == <<70, 79, 82, 77>>
IFZS == <<73, 70, 90, 83>>
IFhd == <<73, 70, 104, 100>>
CMem == <<67, 77, 101, 109>>
UMem == <<85, 77, 101, 109>>
Stks == <<83, 116, 107, 115>>

\* struct.pack(">I", n), struct.unpack(">I", b), struct.pack(">H", n)
pack_I(n) ==
    <<(n \div 16777216) % 256, (n \div 65536) % 256, (n \div 256) % 256, n % 256>>

unpack_I(b) == b[1] * 16777216 + b[2] * 65536 + b[3] * 256 + b[4]

pack_H(n) == <<(n \div 256) % 256, n % 256>>

\* bytes(zm.memory[a:b])
MemBytes(mem, a, b) ==
    LET end == Min(b, Cardinality(DOMAIN mem))
    IN  [i \in 1..(end - a) |-> mem[a + i - 1]]

\* a ^ b on bytes
RECURSIVE xor_bits(_, _, _)
xor_bits(a, b, n) ==
    IF n = 0 THEN 0
    ELSE ((a + b) % 2) + 2 * xor_bits(a \div 2, b \div 2, n - 1)

\* bytes(a ^ b for a, b in zip(x, y, strict=False))
xor_zip(x, y) == [i \in 1..Min(Len(x), Len(y)) |-> xor_bits(x[i], y[i], 8)]

_write_chunk(chunk_id, data) ==
    chunk_id \o pack_I(Len(data)) \o data
             \o (IF Len(data) % 2 # 0 THEN <<0>> ELSE <<>>)

RECURSIVE parse_chunks_loop(_, _)
parse_chunks_loop(data, pos) ==
    IF ~(pos + 8 <= Len(data)) THEN <<>>
    ELSE LET chunk_id == Slice(data, pos, pos + 4)
             length == unpack_I(Slice(data, pos + 4, pos + 8))
             chunk_data == Slice(data, pos + 8, pos + 8 + length)
             pad == IF length % 2 # 0 THEN 1 ELSE 0
         IN  <<[id |-> chunk_id, data |-> chunk_data]>>
                 \o parse_chunks_loop(data, pos + 8 + length + pad)

_parse_chunks(data) == parse_chunks_loop(data, 0)

\* `chunk_id in chunks` and `chunks[chunk_id]`
chunk_in(chunks, chunk_id) == \E i \in 1..Len(chunks) : chunks[i].id = chunk_id

chunk_get(chunks, chunk_id) ==
    LET last == CHOOSE i \in 1..Len(chunks) :
                    /\ chunks[i].id = chunk_id
                    /\ \A j \in (i + 1)..Len(chunks) : chunks[j].id # chunk_id
    IN  chunks[last].data

\* the trailing zeros of the XOR diff are dropped
\* (the loop stops at the largest end that is 0 or follows a non-zero byte)
trim_end(xor, end) ==
    LET stops == {e \in 0..end : e = 0 \/ xor[e] # 0}
    IN  CHOOSE e \in stops : \A d \in stops : d <= e

\* the inner loop: the zeros that follow the first one, at most 255
\* (the loop stops after the least number k of rounds at which its
\* condition fails)
zero_run(xor, i, run) ==
    LET stops == {k \in 0..255 :
                     ~(i + k < Len(xor) /\ xor[i + k + 1] = 0 /\ run + k < 255)}
    IN  run + (CHOOSE k \in stops : \A d \in stops : k <= d)

RECURSIVE compress_loop(_, _)
compress_loop(xor, i) ==
    IF ~(i < Len(xor)) THEN <<>>
    ELSE IF xor[i + 1] # 0 THEN <<xor[i + 1]>> \o compress_loop(xor, i + 1)
    ELSE LET run == zero_run(xor, i + 1, 0)
         IN  <<0, run>> \o compress_loop(xor, i + 1 + run)

_compress_cmem(dynamic, original) ==
    LET xor == xor_zip(dynamic, original)
    IN  compress_loop(SubSeq(xor, 1, trim_end(xor, Len(xor))), 0)

\* a variant of decompress_loop that takes the count byte as the whole
\* length of the zero run
RECURSIVE decompress_loop_CountOnly(_, _, _, _)
decompress_loop_CountOnly(cmem, src, dst, xor) ==
    IF ~(src < Len(cmem) /\ dst < Len(xor)) THEN xor
    ELSE LET b == cmem[src + 1]
         IN  IF b # 0
             THEN decompress_loop_CountOnly(cmem, src + 1, dst + 1,
                                            [xor EXCEPT ![dst + 1] = b])
             ELSE IF src + 1 < Len(cmem)
             THEN decompress_loop_CountOnly(cmem, src + 2,
                                            dst + cmem[src + 2], xor)
             ELSE decompress_loop_CountOnly(cmem, src + 1, dst + 1, xor)

RECURSIVE decompress_loop(_, _, _, _)
decompress_loop(cmem, src, dst, xor) ==
    IF ~(src < Len(cmem) /\ dst < Len(xor)) THEN xor
    ELSE LET b == cmem[src + 1]
         IN  IF b # 0
             THEN decompress_loop(cmem, src + 1, dst + 1,
                                  [xor EXCEPT ![dst + 1] = b])
             ELSE IF src + 1 < Len(cmem)
             THEN decompress_loop(cmem, src + 2, dst + cmem[src + 2] + 1, xor)
             ELSE decompress_loop(cmem, src + 1, dst + 1, xor)

_decompress_cmem(cmem, original) ==
    xor_zip(decompress_loop(cmem, 0, 0, [i \in 1..Len(original) |-> 0]),
            original)

\* quetzal.save.  Every element of frame.to_list() is a byte, a frame
\* having at most 7 arguments, so stks_data.extend does not raise.
save(zm, pc_) ==
    LET ifhd_data == pack_H(header_release(zm.memory))
                        \o header_serial_number(zm.memory)
                        \o pack_H(header_checksum(zm.memory))
                        \o <<(pc_ \div 65536) % 256, (pc_ \div 256) % 256,
                             pc_ % 256>>
        static_addr == header_static_memory_addr(zm.memory)
        dynamic == MemBytes(zm.memory, 0, static_addr)
        cmem_data == _compress_cmem(dynamic, zm.original_dynamic)
        stks_data == Concat([i \in 1..Len(zm.frames) |->
                                Frame_to_list(zm.frames[i])])
        body == _write_chunk(IFhd, ifhd_data) \o _write_chunk(CMem, cmem_data)
                    \o _write_chunk(Stks, stks_data)
    IN  FORM \o pack_I(Len(body) + 4) \o IFZS \o body

\* what restore has decoded when it stops: err is the ValueError's reason
\* ("" when every check passed); a value not yet decoded is None or empty
Parsed(err, pc_, dynamic, frames_) ==
    [err |-> err, pc |-> pc_, dynamic |-> dynamic, frames |-> frames_]

RECURSIVE _parse_stks_loop(_, _, _)
_parse_stks_loop_ShortHeaderEnds(data, pos, frames_) ==
    IF ~(pos < Len(data)) \/ pos + 8 > Len(data)
    THEN Parsed("", None, <<>>, frames_)
    ELSE LET flags == data[pos + 4]
             num_locals == flags % 16
             stack_length == data[pos + 7] * 256 + data[pos + 8]
             frame_size == 8 + num_locals * 2 + stack_length * 2
         IN  IF pos + frame_size > Len(data)
             THEN Parsed("Stks chunk truncated in frame body", None, <<>>,
                         frames_)
             ELSE _parse_stks_loop(data, pos + frame_size,
                      Append(frames_,
                             Frame_from_bytes(Slice(data, pos, pos + frame_size))))

_parse_stks_loop(data, pos, frames_) ==
    IF ~(pos < Len(data)) THEN Parsed("", None, <<>>, frames_)
    ELSE IF pos + 8 > Len(data)
    THEN Parsed("Stks chunk truncated in frame header", None, <<>>, frames_)
    ELSE LET flags == data[pos + 4]
             num_locals == flags % 16
             stack_length == data[pos + 7] * 256 + data[pos + 8]
             frame_size == 8 + num_locals * 2 + stack_length * 2
         IN  IF pos + frame_size > Len(data)
             THEN Parsed("Stks chunk truncated in frame body", None, <<>>,
                         frames_)
             ELSE _parse_stks_loop(data, pos + frame_size,
                      Append(frames_,
                             Frame_from_bytes(Slice(data, pos, pos + frame_size))))

_parse_stks(data) == _parse_stks_loop(data, 0, <<>>)

\* quetzal.restore up to its last check (the f-string reasons are cut at
\* the colon)
restore_parse(zm, data) ==
    IF Len(data) < 12 THEN Parsed("Save file too short", None, <<>>, <<>>)
    ELSE IF Slice(data, 0, 4) # FORM
    THEN Parsed("Not an IFF file", None, <<>>, <<>>)
    ELSE IF Slice(data, 8, 12) # IFZS
    THEN Parsed("Not a Quetzal save file", None, <<>>, <<>>)
    ELSE LET chunks == _parse_chunks(Slice(data, 12, Len(data)))
    IN  IF ~chunk_in(chunks, IFhd)
        THEN Parsed("Missing IFhd chunk", None, <<>>, <<>>)
        ELSE LET ifhd == chunk_get(chunks, IFhd)
        IN  IF Len(ifhd) < 13
            THEN Parsed("IFhd chunk too short", None, <<>>, <<>>)
            ELSE LET release == ifhd[1] * 256 + ifhd[2]
                     serial == Slice(ifhd, 2, 8)
                     checksum == ifhd[9] * 256 + ifhd[10]
                     pc_ == ifhd[11] * 65536 + ifhd[12] * 256 + ifhd[13]
                     static_addr == header_static_memory_addr(zm.memory)
                     dynamic == IF chunk_in(chunks, CMem)
                                THEN _decompress_cmem(chunk_get(chunks, CMem),
                                                      zm.original_dynamic)
                                ELSE IF chunk_in(chunks, UMem)
                                THEN chunk_get(chunks, UMem)
                                ELSE <<>>
            IN  IF release # header_release(zm.memory)
                THEN Parsed("Release mismatch", pc_, <<>>, <<>>)
                ELSE IF serial # header_serial_number(zm.memory)
                THEN Parsed("Serial number mismatch", pc_, <<>>, <<>>)
                ELSE IF checksum # header_checksum(zm.memory)
                THEN Parsed("Checksum mismatch", pc_, <<>>, <<>>)
                ELSE IF ~chunk_in(chunks, CMem) /\ ~chunk_in(chunks, UMem)
                THEN Parsed("Missing CMem or UMem chunk", pc_, <<>>, <<>>)
                ELSE IF Len(dynamic) > static_addr
                THEN Parsed("Restored dynamic memory too large", pc_, dynamic,
                            <<>>)
                ELSE IF ~chunk_in(chunks, Stks)
                THEN Parsed("Missing Stks chunk", pc_, dynamic, <<>>)
                ELSE LET st == _parse_stks(chunk_get(chunks, Stks))
                     IN  Parsed(st.err, pc_, dynamic, st.frames)

\* zm.memory[0 : len(dynamic)] = dynamic
write_slice(mem, dynamic) ==
    LET n == Cardinality(DOMAIN mem)
        m == IF Len(dynamic) > n THEN Len(dynamic) ELSE n
    IN  [a \in 0..(m - 1) |-> IF a < Len(dynamic) THEN dynamic[a + 1] ELSE mem[a]]

restore_PcBeforeChecks(zm, data) ==
    LET p == restore_parse(zm, data)
    IN  IF p.err # ""
        THEN [z |-> Raise([zm EXCEPT !.pc = IF p.pc = None THEN @ ELSE p.pc],
                          "ValueError"),
              err |-> p.err]
        ELSE [z |-> [zm EXCEPT !.memory = write_slice(@, p.dynamic),
                               !.pc = p.pc,
                               !.frames = p.frames],
              err |-> ""]

\* quetzal.restore: the three assignments follow every raise
restore(zm, data) ==
    LET p == restore_parse(zm, data)
    IN  IF p.err # "" THEN [z |-> Raise(zm, "ValueError"), err |-> p.err]
        ELSE [z |-> [zm EXCEPT !.memory = write_slice(@, p.dynamic),
                               !.pc = p.pc,
                               !.frames = p.frames],
              err |-> ""]

----------------------------------------------------------------------------
(* The story image of the object specifications: six objects, object 1     *)
(* the parent of 2, 3, 4 and 5 (in this order), object 6 alone; property   *)
(* defaults from address 64, the object entries after them, the property   *)
(* tables after the entries, static memory from 304, an empty dictionary   *)
(* at 312.                                                                 *)

ObjStoryLen == 20 * 16

ObjCount == 3 + 3

ObjEntries(v) == IF v <= 3 THEN 64 + 62 ELSE 64 + 126

ObjEntrySize(v) == IF v <= 3 THEN 9 ELSE 14

\* the property table of object 1, the (empty) table of the other objects
ObjProps1(v) == ObjEntries(v) + ObjCount * ObjEntrySize(v)

ObjProps0(v) == ObjProps1(v) + 20

\* object 1's table: a one-word name, then in version 3 the properties
\* 18 (2 bytes), 5 (1 byte), 2 (4 bytes); in version 5 the properties
\* 40 (2 bytes), 18 (1 byte), 5 (4 bytes, two-byte header), 2 (1 byte)
ObjPropBytes(v) ==
    IF v <= 3
    THEN <<1, 148, 165, 32 + 18, 171, 205, 5, 7, 96 + 2, 1, 2, 3, 4, 0>>
    ELSE <<1, 148, 165, 64 + 40, 171, 205, 18, 7, 128 + 5, 128 + 4, 1, 2, 3,
           4, 2, 9, 0>>

\* parent, sibling, child of the objects at load
ObjTree ==
    <<[parent |-> 0, sibling |-> 0, child |-> 2],
      [parent |-> 1, sibling |-> 3, child |-> 0],
      [parent |-> 1, sibling |-> 4, child |-> 0],
      [parent |-> 1, sibling |-> 5, child |-> 0],
      [parent |-> 1, sibling |-> 0, child |-> 0],
      [parent |-> 0, sibling |-> 0, child |-> 0]>>

\* the byte at offset off of the entry of object n: attribute bytes (at
\* load object n has attribute 0 set, and attribute 8 * n - 1 when it
\* exists), then the tree links and the address of the property table
ObjEntryByte(v, n, off) ==
    LET w == IF v <= 3 THEN 4 ELSE 6
        props == IF n = 1 THEN ObjProps1(v) ELSE ObjProps0(v)
        t == ObjTree[n]
    IN  IF off < w
        THEN (IF off = 0 THEN 128 ELSE 0) + (IF off = n - 1 THEN 1 ELSE 0)
        ELSE IF v <= 3
        THEN CASE off = 4 -> t.parent
               [] off = 5 -> t.sibling
               [] off = 6 -> t.child
               [] off = 7 -> props \div 256
               [] OTHER -> props % 256
        ELSE CASE off = 7 -> t.parent
               [] off = 9 -> t.sibling
               [] off = 11 -> t.child
               [] off = 12 -> props \div 256
               [] off = 13 -> props % 256
               [] OTHER -> 0

ObjStoryByte(v, a) ==
    CASE a = 0 -> v
      [] a = 3 -> 1                      \* release 1
      [] a = 7 -> 64                     \* initial pc
      [] a = 8 -> 1                      \* dictionary (empty) at 312
      [] a = 9 -> 56
      [] a = 11 -> 64                    \* object table (defaults) at 64
      [] a = 13 -> 64                    \* globals base
      [] a = 14 -> 1                     \* static memory base = 304
      [] a = 15 -> 48
      [] a \in ObjEntries(v)..(ObjProps1(v) - 1) ->
            ObjEntryByte(v, (a - ObjEntries(v)) \div ObjEntrySize(v) + 1,
                         (a - ObjEntries(v)) % ObjEntrySize(v))
      [] a \in ObjProps1(v)..(ObjProps1(v) + Len(ObjPropBytes(v)) - 1) ->
            ObjPropBytes(v)[a - ObjProps1(v) + 1]
      [] OTHER -> 0

ObjStory(v) == [a \in 0..(ObjStoryLen - 1) |-> ObjStoryByte(v, a)]

----------------------------------------------------------------------------
(* ZMachine: the object table *)

obj_size(z) == IF z.version <= 3 THEN 9 ELSE 14

attr_width(z) == IF z.version <= 3 THEN 4 ELSE 6

prop_offset(z) == IF z.version <= 3 THEN 3 ELSE 6

header_obj_table_addr(mem) ==
    zd_u16(mem, 10) + (IF mem[0] <= 3 THEN 31 ELSE 63) * 2

get_object_addr(z, obj_id) ==
    IF obj_id # 0
    THEN header_obj_table_addr(z.memory) + (obj_id - 1) * obj_size(z)
    ELSE header_obj_table_addr(z.memory)

get_object_prop_table_addr(z, obj_id) ==
    zd_u16(z.memory, get_object_addr(z, obj_id) + attr_width(z) + prop_offset(z))

get_parent(z, obj_id) ==
    IF obj_id = 0 THEN 0
    ELSE LET addr == get_object_addr(z, obj_id) + attr_width(z)
         IN  IF z.version <= 3 THEN zd_u8(z.memory, addr)
             ELSE zd_u16(z.memory, addr)

set_parent(z, obj_id, parent) ==
    LET addr == get_object_addr(z, obj_id) + attr_width(z)
    IN  IF z.version <= 3 THEN zd_write_u8(z, addr, parent)
        ELSE zd_write_u16(z, addr, parent)

get_child(z, obj_id) ==
    IF obj_id = 0 THEN 0
    ELSE LET addr == get_object_addr(z, obj_id) + attr_width(z)
         IN  IF z.version <= 3 THEN zd_u8(z.memory, addr + 2)
             ELSE zd_u16(z.memory, addr + 4)

get_sibling(z, obj_id) ==
    IF obj_id = 0 THEN 0
    ELSE LET addr == get_object_addr(z, obj_id) + attr_width(z)
         IN  IF z.version <= 3 THEN zd_u8(z.memory, addr + 1)
             ELSE zd_u16(z.memory, addr + 2)

set_sibling(z, obj_id, sibling_id) ==
    LET addr == get_object_addr(z, obj_id) + attr_width(z)
    IN  IF z.version <= 3 THEN zd_write_u8(z, addr + 1, sibling_id)
        ELSE zd_write_u16(z, addr + 2, sibling_id)

set_child(z, obj_id, child_id) ==
    LET addr == get_object_addr(z, obj_id) + attr_width(z)
    IN  IF z.version <= 3 THEN zd_write_u8(z, addr + 2, child_id)
        ELSE zd_write_u16(z, addr + 4, child_id)

\* get_older of remove_obj: the object whose sibling is obj_id, searched
\* from prev.  The recursion never ends when the walk comes back to an
\* object it has seen (object 0 is its own sibling) without finding obj_id:
\* Python raises RecursionError, modelled by the result None.
RECURSIVE get_older(_, _, _, _)
get_older(z, obj_id, prev, seen) ==
    LET next_ == get_sibling(z, prev)
    IN  IF next_ = obj_id THEN prev
        ELSE IF next_ \in seen \cup {prev} THEN None
        ELSE get_older(z, obj_id, next_, seen \cup {prev})

\* g after f, unless f raised
Then(z, g(_)) == IF Ok(z) THEN g(z) ELSE z

remove_obj_KeepsSibling(z, obj_id) ==
    LET parent == get_parent(z, obj_id)
        parents_first_child == get_child(z, parent)
        younger_sibling == get_sibling(z, obj_id)
        older_sibling == get_older(z, obj_id, parents_first_child, {})
        clear(z1) == set_parent(z1, obj_id, 0)
    IN  IF parent = 0 THEN z
        ELSE IF obj_id = parents_first_child
        THEN Then(set_child(z, parent, younger_sibling), clear)
        ELSE IF older_sibling = None THEN Raise(z, "RecursionError")
        ELSE Then(set_sibling(z, older_sibling, younger_sibling), clear)

remove_obj(z, obj_id) ==
    LET parent == get_parent(z, obj_id)
        parents_first_child == get_child(z, parent)
        younger_sibling == get_sibling(z, obj_id)
        older_sibling == get_older(z, obj_id, parents_first_child, {})
        clear_sibling(z1) == set_sibling(z1, obj_id, 0)
        clear(z1) == Then(set_parent(z1, obj_id, 0), clear_sibling)
    IN  IF parent = 0 THEN z
        ELSE IF obj_id = parents_first_child
        THEN Then(set_child(z, parent, younger_sibling), clear)
        ELSE IF older_sibling = None THEN Raise(z, "RecursionError")
        ELSE Then(set_sibling(z, older_sibling, younger_sibling), clear)

insert_obj_NoRemove(z, obj_id, destination) ==
    LET parents_first_child == get_child(z, destination)
        link_sibling(z1) == set_sibling(z1, obj_id, parents_first_child)
        link_child(z1) == Then(set_child(z1, destination, obj_id), link_sibling)
        link(z1) == Then(set_parent(z1, obj_id, destination), link_child)
    IN  IF parents_first_child = obj_id THEN z
        ELSE link(z)

insert_obj_SiblingReadLate(z, obj_id, destination) ==
    LET parents_first_child == get_child(z, destination)
        link_sibling(z1) == set_sibling(z1, obj_id, get_child(z1, destination))
        link_child(z1) == Then(set_child(z1, destination, obj_id), link_sibling)
        link(z1) == Then(set_parent(z1, obj_id, destination), link_child)
    IN  IF parents_first_child = obj_id THEN z
        ELSE Then(remove_obj(z, obj_id), link)

insert_obj(z, obj_id, destination) ==
    LET parents_first_child == get_child(z, destination)
        link_sibling(z1) == set_sibling(z1, obj_id, parents_first_child)
        link_child(z1) == Then(set_child(z1, destination, obj_id), link_sibling)
        link(z1) == Then(set_parent(z1, obj_id, destination), link_child)
    IN  IF parents_first_child = obj_id THEN z
        ELSE Then(remove_obj(z, obj_id), link)

\* 128 >> bit
attr_mask(bit) == 2 ^ (7 - bit)

\* byte & (128 >> bit) != 0
attr_bit(byte, bit) == (byte \div attr_mask(bit)) % 2 = 1

test_attr(z, obj_id, attr) ==
    IF attr > attr_width(z) * 8 THEN [z |-> Raise(z, "Exception"), val |-> None]
    ELSE LET addr == get_object_addr(z, obj_id) + attr \div 8
             byte == zd_u8(z.memory, addr)
             bit == attr % 8
         IN  [z |-> z, val |-> IF attr_bit(byte, bit) THEN 1 ELSE 0]

set_attr_BitFromLow(z, obj_id, attr) ==
    IF attr > attr_width(z) * 8 THEN Raise(z, "Exception")
    ELSE LET addr == get_object_addr(z, obj_id) + attr \div 8
             byte == zd_u8(z.memory, addr)
             bit == 7 - (attr % 8)
         IN  zd_write_u8(z, addr, IF attr_bit(byte, bit) THEN byte
                                  ELSE byte + attr_mask(bit))

\* byte | (128 >> bit)
set_attr(z, obj_id, attr) ==
    IF attr > attr_width(z) * 8 THEN Raise(z, "Exception")
    ELSE LET addr == get_object_addr(z, obj_id) + attr \div 8
             byte == zd_u8(z.memory, addr)
             bit == attr % 8
         IN  zd_write_u8(z, addr, IF attr_bit(byte, bit) THEN byte
                                  ELSE byte + attr_mask(bit))

\* byte & ~(128 >> bit)
clear_attr(z, obj_id, attr) ==
    IF attr > attr_width(z) * 8 THEN Raise(z, "Exception")
    ELSE LET addr == get_object_addr(z, obj_id) + attr \div 8
             byte == zd_u8(z.memory, addr)
             bit == attr % 8
         IN  zd_write_u8(z, addr, IF attr_bit(byte, bit)
                                  THEN byte - attr_mask(bit) ELSE byte)

ZObjectProperty(number, length, addr, next_) ==
    [number |-> number, length |-> length, addr |-> addr, next_ |-> next_]

\* read_object_prop: with a two-byte size (versions 4+, top bit of the
\* header set) value_addr keeps its initial value 0
read_object_prop(z, addr) ==
    LET header == zd_u8(z.memory, addr)
    IN  IF 1 <= z.version /\ z.version <= 3
        THEN ZObjectProperty(header % 32, header \div 32 + 1, addr + 1,
                             addr + 1 + header \div 32 + 1)
        ELSE IF header >= 128
        THEN LET l == zd_u8(z.memory, addr + 1) % 64
                 length == IF l = 0 THEN 64 ELSE l
             IN  ZObjectProperty(header % 64, length, 0, 0 + length)
        ELSE LET length == IF (header \div 64) % 2 # 0 THEN 2 ELSE 1
             IN  ZObjectProperty(header % 64, length, addr + 1,
                                 addr + 1 + length)

RECURSIVE find_prop_loop(_, _, _)
find_prop_loop(z, prop, property_number) ==
    IF prop.number # 0 /\ prop.number # property_number
    THEN IF property_number > prop.number THEN ZObjectProperty(0, 0, 0, 0)
         ELSE find_prop_loop(z, read_object_prop(z, prop.next_),
                             property_number)
    ELSE prop

find_prop(z, obj_id, property_number) ==
    IF property_number = 0 THEN ZObjectProperty(0, 0, 0, 0)
    ELSE LET addr == get_object_prop_table_addr(z, obj_id)
             str_length == zd_u8(z.memory, addr) * 2
             first_addr == addr + str_length + 1
         IN  find_prop_loop(z, read_object_prop(z, first_addr),
                            property_number)

get_next_prop(z, obj_id, property_number) ==
    IF property_number = 0
    THEN LET addr == get_object_prop_table_addr(z, obj_id)
             str_length == zd_u8(z.memory, addr) * 2
             first_prop == addr + str_length + 1
         IN  read_object_prop(z, first_prop).number
    ELSE read_object_prop(z, find_prop(z, obj_id, property_number).next_).number

----------------------------------------------------------------------------
(* The machine as a record, and the state after ZMachine.__init__ *)

Z == [version |-> version, memory |-> memory, pc |-> pc, frames |-> frames,
      exc |-> exc, original_dynamic |-> original_dynamic]

Apply(z) ==
    /\ version' = z.version
    /\ memory' = z.memory
    /\ pc' = z.pc
    /\ frames' = z.frames
    /\ exc' = z.exc

Versions == {3, 5}

NoInstr == Instr(None, NoBranch, 0)

Op(name, instr, args, val) ==
    [name |-> name, instr |-> instr, args |-> args, val |-> val]

NoSnap == [memory |-> <<>>, pc |-> None, frames |-> <<>>]

ZMachine_init(v) ==
    /\ version = v
    /\ memory = Story(v)
    /\ pc = header_pc(Story(v))
    /\ frames = <<Frame_init(0, None, <<>>, <<>>)>>
    /\ original_dynamic = <<>>
    /\ exc = ""
    /\ op = Op("load", NoInstr, <<>>, None)
    /\ steps = 0
    /\ savefile = <<>>
    /\ snap = NoSnap

Init == \E v \in Versions : ZMachine_init(v)

\* the run loop stops at the first exception
Running == exc = ""

\* an operation of the machine: z is the machine after it
Does(name, instr, args, val, z) ==
    /\ Apply(z)
    /\ op' = Op(name, instr, args, val)
    /\ steps' = steps + 1
    /\ UNCHANGED <<original_dynamic, savefile, snap>>

----------------------------------------------------------------------------
(* Specification Spec: calls and returns *)

Packed(v, addr) == IF v <= 3 THEN addr \div 2 ELSE addr \div 4

NextPcs == {256, 258}

\* call instructions: <<resolved arguments, store variable>>
CallFixtures(v) ==
    { <<<<>>, 1>>,
      <<<<0>>, 0>>,
      <<<<0, 7>>, None>>,
      <<<<0>>, 16>>,
      <<<<Packed(v, RoutineA)>>, None>>,
      <<<<Packed(v, RoutineA), 7, 8, 9>>, 1>>,
      <<<<Packed(v, RoutineA), 7>>, 0>>,
      <<<<Packed(v, RoutineB)>>, 0>>,
      <<<<Packed(v, RoutineB), 9>>, 2>>,
      <<<<Packed(v, RoutineC), 7>>, 16>>,
      <<<<Packed(v, StoryLen)>>, 1>> }

RetValues == {5}

PushValues == {43981}

OpCall ==
    \E f \in CallFixtures(version), n \in NextPcs :
        LET instr == Instr(f[2], NoBranch, n)
        IN  Does("call", instr, f[1], None, op_call(Z, instr, f[1]))

OpRet ==
    \E v \in RetValues :
        Does("ret", NoInstr, <<v>>, None, op_ret(Z, NoInstr, <<v>>))

OpRtrue == Does("rtrue", NoInstr, <<>>, None, op_rtrue(Z, NoInstr, <<>>))

OpRfalse == Does("rfalse", NoInstr, <<>>, None, op_rfalse(Z, NoInstr, <<>>))

OpRetPopped ==
    Does("ret_popped", NoInstr, <<>>, None, op_ret_popped(Z, NoInstr, <<>>))

OpPush ==
    \E v \in PushValues, n \in NextPcs :
        Does("push", Instr(None, NoBranch, n), <<v>>, None,
             op_push(Z, Instr(None, NoBranch, n), <<v>>))

Next ==
    /\ Running
    /\ steps < MaxSteps
    /\ \/ OpCall
       \/ OpRet
       \/ OpRtrue
       \/ OpRfalse
       \/ OpRetPopped
       \/ OpPush

Spec == Init /\ [][Next]_vars

----------------------------------------------------------------------------
(* What the claims below mean by "variable idx holds v afterwards": the     *)
(* frames fr / memory mem before and fr2 / mem2 after writing v to idx in   *)
(* the topmost frame of fr.                                                 *)

WordAt(mem, a) == mem[a] * 256 + mem[a + 1]

StoredTo(fr, mem, fr2, mem2, idx, v) ==
    LET t == Len(fr)
        g == WordAt(mem, 12) + 2 * (idx - 16)
    IN  IF idx >= 16
        THEN /\ fr2 = fr
             /\ DOMAIN mem2 = DOMAIN mem
             /\ WordAt(mem2, g) = v
             /\ \A a \in DOMAIN mem : a \notin {g, g + 1} => mem2[a] = mem[a]
        ELSE /\ mem2 = mem
             /\ t > 0
             /\ Len(fr2) = t
             /\ \A i \in 1..(t - 1) : fr2[i] = fr[i]
             /\ fr2[t].resume = fr[t].resume
             /\ fr2[t].store = fr[t].store
             /\ fr2[t].arg_count = fr[t].arg_count
             /\ IF idx = 0
                THEN /\ fr2[t].stack = Append(fr[t].stack, v)
                     /\ fr2[t].locals = fr[t].locals
                ELSE /\ fr2[t].stack = fr[t].stack
                     /\ Len(fr2[t].locals) = Len(fr[t].locals)
                     /\ idx <= Len(fr[t].locals)
                     /\ \A i \in 1..Len(fr[t].locals) :
                           fr2[t].locals[i] =
                               IF i = idx THEN v ELSE fr[t].locals[i]

IsCallOfRoutine(o) == o.name = "call" /\ Len(o.args) > 0 /\ o.args[1] # 0

IsCallOfZero(o) == o.name = "call" /\ (Len(o.args) = 0 \/ o.args[1] = 0)

\* the byte address of a packed routine address (x2 in v1-3, x4 in v4-7)
C4_RoutineAddr(v, packed) == IF v <= 3 THEN 2 * packed ELSE 4 * packed

\* C4: a completed call of a non-zero packed address pushes exactly one frame
\* whose locals number the routine's local count n, local i being args[i] for
\* i <= min(n, len(args)) and otherwise the routine's i-th initial word (v1-4)
\* or 0 (v5+); the frame's return PC is the instruction's next-PC and its
\* store the instruction's store variable; PC is just after the initial-values
\* block; no existing frame (and no memory) is modified.
C4_CallPushesFrame ==
    [][ (IsCallOfRoutine(op') /\ exc' = "") =>
          LET routine == C4_RoutineAddr(version, op'.args[1])
              n == memory[routine]
              args == SubSeq(op'.args, 2, Len(op'.args))
              f == frames'[Len(frames')]
          IN  /\ Len(frames') = Len(frames) + 1
              /\ SubSeq(frames', 1, Len(frames)) = frames
              /\ Len(f.locals) = n
              /\ \A i \in 1..n :
                    f.locals[i] =
                        IF i <= Len(args) THEN args[i]
                        ELSE IF version <= 4
                             THEN WordAt(memory, routine + 1 + 2 * (i - 1))
                             ELSE 0
              /\ f.stack = <<>>
              /\ f.resume = op'.instr.next_
              /\ f.store = op'.instr.store
              /\ pc' = IF version <= 4 THEN routine + 1 + 2 * n ELSE routine + 1
              /\ memory' = memory ]_vars

\* a v3 call of the 2-local routine with one argument has completed on top of
\* an earlier call: the second local kept its initial word
C4_Witness ==
    /\ IsCallOfRoutine(op) /\ exc = "" /\ version = 3
    /\ Len(frames) = 3
    /\ Len(op.args) = 2
    /\ frames[3].locals = <<7, 34>>

IsReturn(o) == o.name \in {"ret", "rtrue", "rfalse", "ret_popped"}

\* the value a return opcode returns, given the frames before it
C5_Value(o, fr) ==
    IF o.name = "ret" THEN o.args[1]
    ELSE IF o.name = "rtrue" THEN 1
    ELSE IF o.name = "rfalse" THEN 0
    ELSE fr[Len(fr)].stack[Len(fr[Len(fr)].stack)]

\* the frames a return opcode leaves for return_from_routine
C5_Entry(o, fr) ==
    IF o.name = "ret_popped"
    THEN [fr EXCEPT ![Len(fr)].stack = SubSeq(@, 1, Len(@) - 1)]
    ELSE fr

\* C5: a return pops exactly the top frame, sets PC to its return PC and, iff
\* the popped frame has a store variable (variable 0 included), writes the
\* value to that variable of the caller's frame; no step changes a frame that
\* is below the top both before and after it, so a call followed by the
\* callee's return restores the
\* frame count and leaves the caller's frame as it was but for the store
\* target.
C5_ReturnPopsAndStores ==
    [][ /\ \A i \in 1..(Min(Len(frames), Len(frames')) - 1) :
              frames'[i] = frames[i]
        /\ (IsReturn(op') /\ Len(frames) > 0
             /\ (op'.name = "ret_popped" => Len(frames[Len(frames)].stack) > 0)) =>
              LET popped == frames[Len(frames)]
                  rest == SubSeq(frames, 1, Len(frames) - 1)
                  v == C5_Value(op', frames)
              IN  /\ Len(frames') = Len(frames) - 1
                  /\ pc' = popped.resume
                  /\ popped.store = None => (frames' = rest /\ memory' = memory)
                  /\ (popped.store # None /\ exc' = "") =>
                        StoredTo(rest, memory, frames', memory', popped.store, v)
                  /\ (popped.store \in 0..15 /\ Len(rest) > 0
                        /\ (popped.store \in 1..15 =>
                               popped.store <= Len(rest[Len(rest)].locals)))
                        => exc' = "" ]_vars

\* a callee whose call stored to local 1 has returned 5 to a caller with locals
C5_Witness ==
    /\ op.name = "ret" /\ exc = ""
    /\ Len(frames) = 2
    /\ Len(frames[2].locals) = 2
    /\ frames[2].locals[1] = 5
    /\ pc \in NextPcs

\* C6: calling packed address 0, or call with no operands, pushes no frame,
\* writes 0 to the instruction's store variable if it has one, and sets PC to
\* the instruction's next-PC.
C6_CallZero ==
    [][ (IsCallOfZero(op') /\ exc' = "") =>
          /\ pc' = op'.instr.next_
          /\ IF op'.instr.store = None
             THEN frames' = frames /\ memory' = memory
             ELSE StoredTo(frames, memory, frames', memory', op'.instr.store, 0) ]_vars

\* call 0 with store variable 16 has written 0 over global 0 (4660 at load)
C6_Witness ==
    /\ IsCallOfZero(op) /\ exc = "" /\ op.instr.store = 16
    /\ Len(op.args) = 1
    /\ WordAt(memory, 64) = 0
    /\ pc = op.instr.next_

----------------------------------------------------------------------------
(* Specification SpecVar: the four variable accessors of ZMachine, called   *)
(* on frames made by calls of the 2-local and the 15-local routine.         *)

VarIndexes == {0 - 1, 0, 1, 2, 15, 16, 255, 256}

VarValues == {7, 43981}

VarCallFixtures(v) ==
    { <<<<Packed(v, RoutineA), 9>>, None>>,
      <<<<Packed(v, RoutineC)>>, None>> }

VarCall ==
    \E f \in VarCallFixtures(version) :
        LET instr == Instr(f[2], NoBranch, 256)
        IN  Does("call", instr, f[1], None, op_call(Z, instr, f[1]))

ReadVariable ==
    \E i \in VarIndexes :
        LET r == read_variable(Z, i)
        IN  Does("read_variable", NoInstr, <<i>>, r.val, r.z)

ReadIndirectVariable ==
    \E i \in VarIndexes :
        LET r == read_indirect_variable(Z, i)
        IN  Does("read_indirect_variable", NoInstr, <<i>>, r.val, r.z)

WriteVariable ==
    \E i \in VarIndexes, v \in VarValues :
        Does("write_variable", NoInstr, <<i, v>>, None, write_variable(Z, i, v))

WriteIndirectVariable ==
    \E i \in VarIndexes, v \in VarValues :
        Does("write_indirect_variable", NoInstr, <<i, v>>, None,
             write_indirect_variable(Z, i, v))

NextVar ==
    /\ Running
    /\ steps < MaxVarSteps
    /\ \/ VarCall
       \/ ReadVariable
       \/ ReadIndirectVariable
       \/ WriteVariable
       \/ WriteIndirectVariable

SpecVar == Init /\ [][NextVar]_vars

IsVarRead(o) == o.name \in {"read_variable", "read_indirect_variable"}

IsVarWrite(o) == o.name \in {"write_variable", "write_indirect_variable"}

\* the top frame of fr with its evaluation stack replaced by st
C7_WithStack(fr, st) == [fr EXCEPT ![Len(fr)].stack = st]

C7_Stack(fr) == fr[Len(fr)].stack

C7_Front(st) == SubSeq(st, 1, Len(st) - 1)

\* the address of the global that variable idx names
C7_GlobalAddr(mem, idx) == WordAt(mem, 12) + 2 * (idx - 16)

\* C7: variable 0 is the evaluation stack of the current frame (write pushes,
\* read pops, the indirect read peeks, the indirect write replaces the top at
\* the same depth); variables 1..15 are local index-1 of the topmost frame;
\* variables 16..255 are the word at globals_base + 2*(index-16); any other
\* index raises and changes nothing.
C7_VariableAddressing ==
    [][ (IsVarRead(op') \/ IsVarWrite(op')) =>
          LET i == op'.args[1]
              st == C7_Stack(frames)
              hasTop == Len(frames) > 0 /\ Len(st) > 0
          IN  /\ pc' = pc
              /\ i \notin 0..255 =>
                    exc' # "" /\ frames' = frames /\ memory' = memory
              /\ (i = 0 /\ op'.name = "write_variable" /\ Len(frames) > 0) =>
                    /\ exc' = "" /\ memory' = memory
                    /\ frames' = C7_WithStack(frames, Append(st, op'.args[2]))
              /\ (i = 0 /\ op'.name = "read_variable" /\ hasTop) =>
                    /\ exc' = "" /\ memory' = memory
                    /\ op'.val = st[Len(st)]
                    /\ frames' = C7_WithStack(frames, C7_Front(st))
              /\ (i = 0 /\ op'.name = "read_indirect_variable" /\ hasTop) =>
                    /\ exc' = "" /\ memory' = memory
                    /\ op'.val = st[Len(st)]
                    /\ frames' = frames
              /\ (i = 0 /\ op'.name = "write_indirect_variable" /\ hasTop) =>
                    /\ exc' = "" /\ memory' = memory
                    /\ frames' = C7_WithStack(frames,
                                     Append(C7_Front(st), op'.args[2]))
              /\ (i \in 1..15 /\ Len(frames) > 0
                    /\ i <= Len(frames[Len(frames)].locals)) =>
                    /\ exc' = ""
                    /\ IsVarRead(op') =>
                          /\ op'.val = frames[Len(frames)].locals[i]
                          /\ frames' = frames /\ memory' = memory
                    /\ IsVarWrite(op') =>
                          StoredTo(frames, memory, frames', memory', i, op'.args[2])
              /\ (i \in 16..255 /\ C7_GlobalAddr(memory, i) + 1 \in DOMAIN memory) =>
                    /\ exc' = ""
                    /\ IsVarRead(op') =>
                          /\ op'.val = WordAt(memory, C7_GlobalAddr(memory, i))
                          /\ frames' = frames /\ memory' = memory
                    /\ IsVarWrite(op') =>
                          StoredTo(frames, memory, frames', memory', i, op'.args[2]) ]_vars

\* the indirect write of variable 0 has replaced the top of a two-deep stack
C7_Witness ==
    /\ op.name = "write_indirect_variable" /\ op.args = <<0, 7>> /\ exc = ""
    /\ Len(frames) = 1
    /\ frames[1].stack = <<43981, 7>>

----------------------------------------------------------------------------
(* Specification SpecBranch: je and jz with every kind of branch record,    *)
(* executed in the initial frame and in called routines.                    *)

BranchFixtures ==
    { BranchTo(TRUE, 768), BranchTo(FALSE, 768),
      BranchRet(TRUE, 0), BranchRet(TRUE, 1),
      BranchRet(FALSE, 0), BranchRet(FALSE, 1) }

JeArgs == { <<5, 3, 5, 7>>, <<5, 3, 4, 7>>, <<5, 5>>, <<5, 4>>, <<5>> }

JzArgs == { <<0>>, <<1>> }

BranchCallFixtures(v) ==
    { <<<<Packed(v, RoutineA)>>, None>>,
      <<<<Packed(v, RoutineA), 7>>, 1>>,
      <<<<Packed(v, RoutineB)>>, 0>>,
      <<<<Packed(v, RoutineB)>>, 16>> }

BranchCall ==
    \E f \in BranchCallFixtures(version) :
        LET instr == Instr(f[2], NoBranch, 256)
        IN  Does("call", instr, f[1], None, op_call(Z, instr, f[1]))

OpJe ==
    \E b \in BranchFixtures, a \in JeArgs :
        LET instr == Instr(None, b, 258)
        IN  Does("je", instr, a, None, op_je(Z, instr, a))

OpJz ==
    \E b \in BranchFixtures, a \in JzArgs :
        LET instr == Instr(None, b, 258)
        IN  Does("jz", instr, a, None, op_jz(Z, instr, a))

NextBranch ==
    /\ Running
    /\ steps < MaxBranchSteps
    /\ \/ BranchCall
       \/ OpJe
       \/ OpJz

SpecBranch == Init /\ [][NextBranch]_vars

\* the test result of a branch instruction, from its resolved arguments
C8_Test(o) ==
    IF o.name = "je"
    THEN \E i \in 1..Len(o.args) : i > 1 /\ o.args[i] = o.args[1]
    ELSE o.args[1] = 0

\* C8: the branch is taken iff the test result equals the branch record's
\* condition flag; a taken return-false / return-true record returns 0 / 1
\* from the current routine, any other taken record sets PC to the branch
\* address; when not taken PC becomes next-PC.  For je the test is true iff
\* the first argument equals one of the later ones.
C8_BranchTaken ==
    [][ op'.name \in {"je", "jz"} =>
          LET b == op'.instr.branch
              taken == (C8_Test(op') = b.condition)
          IN  /\ ~taken =>
                    /\ pc' = op'.instr.next_ /\ exc' = ""
                    /\ frames' = frames /\ memory' = memory
              /\ (taken /\ b.returns = None) =>
                    /\ pc' = b.address /\ exc' = ""
                    /\ frames' = frames /\ memory' = memory
              /\ (taken /\ b.returns # None /\ Len(frames) > 0) =>
                    LET popped == frames[Len(frames)]
                        rest == SubSeq(frames, 1, Len(frames) - 1)
                    IN  /\ b.returns \in {0, 1}
                        /\ Len(frames') = Len(frames) - 1
                        /\ pc' = popped.resume
                        /\ popped.store = None =>
                              frames' = rest /\ memory' = memory /\ exc' = ""
                        /\ (popped.store # None /\ exc' = "") =>
                              StoredTo(rest, memory, frames', memory',
                                       popped.store, b.returns)
                        /\ (popped.store \in 0..15 /\ Len(rest) > 0
                              /\ (popped.store \in 1..15 =>
                                     popped.store <= Len(rest[Len(rest)].locals)))
                              => exc' = "" ]_vars

\* je 5 3 5 7 with a return-true record that branches on true has returned 1
\* into local 1 of the calling routine
C8_Witness ==
    /\ op.name = "je" /\ op.args = <<5, 3, 5, 7>> /\ exc = ""
    /\ op.instr.branch = BranchRet(TRUE, 1)
    /\ Len(frames) = 2
    /\ frames[2].locals[1] = 1
    /\ pc = 256

----------------------------------------------------------------------------
(* Specification SpecArith: add, sub, mul, div and mod on 16-bit operands,  *)
(* storing to the evaluation stack or to global 0.                          *)

ArithValues == {0, 1, 2, 3, 5, 32767, 32768, 65529, 65535}

ArithStores == {0, 16}

ArithInstr(st) == Instr(st, NoBranch, 256)

OpAdd ==
    \E a \in ArithValues, b \in ArithValues, st \in ArithStores :
        Does("add", ArithInstr(st), <<a, b>>, None,
             op_add(Z, ArithInstr(st), <<a, b>>))

OpSub ==
    \E a \in ArithValues, b \in ArithValues, st \in ArithStores :
        Does("sub", ArithInstr(st), <<a, b>>, None,
             op_sub(Z, ArithInstr(st), <<a, b>>))

OpMul ==
    \E a \in ArithValues, b \in ArithValues, st \in ArithStores :
        Does("mul", ArithInstr(st), <<a, b>>, None,
             op_mul(Z, ArithInstr(st), <<a, b>>))

OpDiv ==
    \E a \in ArithValues, b \in ArithValues, st \in ArithStores :
        Does("div", ArithInstr(st), <<a, b>>, None,
             op_div(Z, ArithInstr(st), <<a, b>>))

OpMod ==
    \E a \in ArithValues, b \in ArithValues, st \in ArithStores :
        Does("mod", ArithInstr(st), <<a, b>>, None,
             op_mod(Z, ArithInstr(st), <<a, b>>))

NextArith ==
    /\ Running
    /\ steps < MaxArithSteps
    /\ \/ OpAdd
       \/ OpSub
       \/ OpMul
       \/ OpDiv
       \/ OpMod

SpecArith == Init /\ [][NextArith]_vars

\* the two's-complement reading of a 16-bit value
Signed16(v) == IF v >= 32768 THEN v - 65536 ELSE v

\* the value the last instruction left in its store variable (0 or a global)
Stored(o) ==
    IF o.instr.store = 0
    THEN frames[Len(frames)].stack[Len(frames[Len(frames)].stack)]
    ELSE WordAt(memory, WordAt(memory, 12) + 2 * (o.instr.store - 16))

\* C9: add, sub and mul store (s(a)+s(b)), (s(a)-s(b)) and (s(a)*s(b)) modulo
\* 2^16, s being the two's-complement reading, and set PC to next-PC.
C9_AddSubMulWrap ==
    (op.name \in {"add", "sub", "mul"} /\ exc = "") =>
        LET a == Signed16(op.args[1])
            b == Signed16(op.args[2])
        IN  /\ pc = op.instr.next_
            /\ Stored(op) = (CASE op.name = "add" -> a + b
                               [] op.name = "sub" -> a - b
                               [] op.name = "mul" -> a * b) % 65536

C10_Abs(x) == IF x < 0 THEN 0 - x ELSE x

\* the quotient q of a by b truncated toward zero: a = q * b + r with
\* |r| < |b| and r zero or of the sign of a
C10_Quot(a, b) ==
    LET n == C10_Abs(a) \div C10_Abs(b)
    IN  CHOOSE q \in {n, 0 - n, n + 1, 0 - n - 1} :
            LET r == a - q * b
            IN  /\ C10_Abs(r) < C10_Abs(b)
                /\ (r = 0 \/ (r < 0) = (a < 0))

\* C10: for b # 0, div stores the quotient of s(a) / s(b) truncated toward
\* zero and mod the remainder, which has the sign of s(a) or is zero, both
\* modulo 2^16, with s(a) = q * s(b) + r.
C10_DivModTruncate ==
    (op.name \in {"div", "mod"} /\ op.args[2] # 0) =>
        LET a == Signed16(op.args[1])
            b == Signed16(op.args[2])
            q == C10_Quot(a, b)
        IN  /\ exc = ""
            /\ pc = op.instr.next_
            /\ Stored(op) = (IF op.name = "div" THEN q ELSE a - q * b) % 65536

----------------------------------------------------------------------------
(* Specification SpecQ: saving and restoring.  The host calls quetzal.save *)
(* and quetzal.restore between instructions; a ValueError of restore is    *)
(* reported to the host, which goes on.                                    *)

\* the machine the next operation acts on
Zq == [Z EXCEPT !.exc = ""]

RunningQ == exc = "" \/ op.name = "restore"

QNextPc == 16 * 16

QInstr(st) == Instr(st, NoBranch, QNextPc)

\* call instructions: <<resolved arguments, store variable>>
QCallFixtures(v) ==
    { <<<<Packed(v, RoutineA), 7>>, 0>>,
      <<<<Packed(v, RoutineB)>>, 5>> }

\* storew array index value: global 0 := 0xABCD
StorewArgs == { <<64, 0, 43981>> }

\* storeb array index value: the low byte of the header's release := 9
StorebArgs == { <<0, 3, 9>> }

QCall ==
    \E f \in QCallFixtures(version) :
        Does("call", QInstr(f[2]), f[1], None, op_call(Zq, QInstr(f[2]), f[1]))

QRet ==
    \E v \in RetValues :
        Does("ret", NoInstr, <<v>>, None, op_ret(Zq, NoInstr, <<v>>))

QPush ==
    \E v \in PushValues :
        Does("push", QInstr(None), <<v>>, None, op_push(Zq, QInstr(None), <<v>>))

QStorew ==
    \E a \in StorewArgs :
        Does("storew", QInstr(None), a, None, op_storew(Zq, QInstr(None), a))

QStoreb ==
    \E a \in StorebArgs :
        Does("storeb", QInstr(None), a, None, op_storeb(Zq, QInstr(None), a))

Save ==
    /\ Apply(Zq)
    /\ savefile' = save(Zq, pc)
    /\ snap' = [memory |-> memory, pc |-> pc, frames |-> frames]
    /\ op' = Op("save", NoInstr, <<>>, None)
    /\ steps' = steps + 1
    /\ UNCHANGED original_dynamic

\* the first n bytes of a save file
Truncated(data, n) == Slice(data, 0, n)

\* a save file with the byte at (1-based) position i replaced by b
Poked(data, i, b) == IF i \in 1..Len(data) THEN [data EXCEPT ![i] = b] ELSE data

\* the layout of a file written by save: the container header is bytes
\* 1..12, the IFhd chunk 13..34, the (empty) CMem chunk 35..42, the Stks
\* chunk from 43 with its first frame from 51
TruncatedLengths(data) == {5, 11, 12, 24, 34, 42, 50, Len(data) - 1}

Pokes ==
    { <<1, 88>>,        \* FORM -> XORM
      <<9, 88>>,        \* IFZS -> XFZS
      <<13, 88>>,       \* IFhd -> XFhd
      <<20, 5>>,        \* IFhd length 13 -> 5
      <<22, 0>>,        \* release
      <<23, 0>>,        \* serial
      <<30, 0>>,        \* checksum
      <<33, 0>>,        \* pc
      <<35, 85>>,       \* CMem -> UMem (empty)
      <<35, 88>>,       \* CMem -> XMem
      <<43, 88>>,       \* Stks -> Xtks
      <<54, 15>>,       \* first frame: 15 locals
      <<58, 9>> }       \* first frame: stack length 9

\* a file another interpreter could have written for the same state: the
\* dynamic memory uncompressed, or one byte more than that
WithUMem(data, dynamic) ==
    LET chunks == _parse_chunks(Slice(data, 12, Len(data)))
        body == _write_chunk(IFhd, chunk_get(chunks, IFhd))
                    \o _write_chunk(UMem, dynamic)
                    \o _write_chunk(Stks, chunk_get(chunks, Stks))
    IN  FORM \o pack_I(Len(body) + 4) \o IFZS \o body

\* a file for the same state whose CMem chunk holds the given run-length
\* data
WithCMem(data, cmem) ==
    LET chunks == _parse_chunks(Slice(data, 12, Len(data)))
        body == _write_chunk(IFhd, chunk_get(chunks, IFhd))
                    \o _write_chunk(CMem, cmem)
                    \o _write_chunk(Stks, chunk_get(chunks, Stks))
    IN  FORM \o pack_I(Len(body) + 4) \o IFZS \o body

\* run-length data of three runs of 256 zeros and a last byte: 769 bytes
LongCMem == <<0, 255, 0, 255, 0, 255, 1>>

RestoreInputs(data, s) ==
    LET static_addr == header_static_memory_addr(s.memory)
    IN  {data}
        \cup {Truncated(data, n) : n \in TruncatedLengths(data)}
        \cup {Poked(data, p[1], p[2]) : p \in Pokes}
        \cup {WithUMem(data, MemBytes(s.memory, 0, static_addr + k)) : k \in {0, 1}}
        \cup {WithCMem(data, LongCMem)}

Restore ==
    /\ savefile # <<>>
    /\ \E data \in RestoreInputs(savefile, snap) :
        LET r == restore(Zq, data)
        IN  /\ Apply(r.z)
            /\ op' = Op("restore", NoInstr, data, r.err)
    /\ steps' = steps + 1
    /\ UNCHANGED <<original_dynamic, savefile, snap>>

NextQ ==
    /\ RunningQ
    /\ steps < MaxQSteps
    /\ \/ QCall
       \/ QRet
       \/ QPush
       \/ QStorew
       \/ QStoreb
       \/ Save
       \/ Restore

SpecQ == Init /\ [][NextQ]_vars

\* C1: restore applied to the bytes that save produced in state S (snap),
\* after any intervening changes, succeeds and yields the dynamic memory,
\* the PC and the frame list of S.
C1_RoundTrip ==
    (op.name = "restore" /\ op.args = savefile) =>
        LET static_addr == header_static_memory_addr(snap.memory)
        IN  /\ exc = ""
            /\ MemBytes(memory, 0, static_addr)
                  = MemBytes(snap.memory, 0, static_addr)
            /\ pc = snap.pc
            /\ frames = snap.frames

\* C2: a restore that raises leaves memory, PC and the frame list exactly
\* as they were before the call.
C2_FailedRestoreUnchanged ==
    [][(op'.name = "restore" /\ exc' # "") =>
            (memory' = memory /\ pc' = pc /\ frames' = frames)]_vars

\* a restore that failed at its last check, in a state whose PC is no longer
\* the saved one
C2_Witness ==
    /\ op.name = "restore"
    /\ exc = "ValueError"
    /\ op.val = "Stks chunk truncated in frame body"
    /\ pc # snap.pc
    /\ frames # snap.frames

\* a Stks chunk is well formed when frames of 8 + 2 * (locals + stack
\* length) bytes fill it exactly
RECURSIVE C3_WellFormedStks(_, _)
C3_WellFormedStks(data, pos) ==
    \/ pos = Len(data)
    \/ /\ pos + 8 <= Len(data)
       /\ LET size == 8 + 2 * (data[pos + 4] % 16)
                        + 2 * (data[pos + 7] * 256 + data[pos + 8])
          IN  /\ pos + size <= Len(data)
              /\ C3_WellFormedStks(data, pos + size)

\* the conditions of acceptance, mem being the story held by the machine
C3_Acceptable(data, mem) ==
    /\ Len(data) >= 12
    /\ SubSeq(data, 1, 4) = FORM
    /\ SubSeq(data, 9, 12) = IFZS
    /\ LET chunks == _parse_chunks(SubSeq(data, 13, Len(data)))
       IN  /\ chunk_in(chunks, IFhd)
           /\ LET ifhd == chunk_get(chunks, IFhd)
              IN  /\ Len(ifhd) >= 13
                  /\ ifhd[1] * 256 + ifhd[2] = WordAt(mem, 2)
                  /\ SubSeq(ifhd, 3, 8) = [i \in 1..6 |-> mem[17 + i]]
                  /\ ifhd[9] * 256 + ifhd[10] = WordAt(mem, 28)
           /\ (chunk_in(chunks, CMem) \/ chunk_in(chunks, UMem))
           /\ chunk_in(chunks, Stks)
           /\ C3_WellFormedStks(chunk_get(chunks, Stks), 0)

C11_DivModByZero ==
    [][(op'.name \in {"div", "mod"} /\ op'.args[2] = 0) =>
            /\ exc' = "Exception"
            /\ memory' = memory
            /\ frames' = frames
            /\ pc' = pc]_vars

\* a mod by zero of a non-zero dividend, the result going to a global
C11_Witness ==
    /\ op.name = "mod"
    /\ op.args = <<5, 0>>
    /\ op.instr.store = 16
    /\ exc = "Exception"

----------------------------------------------------------------------------
(* Specification SpecUtil: utils.from_u16_to_i16 applied to a 16-bit value *)
(* drawn at the start; op.args is the argument and op.val the value        *)
(* returned.                                                               *)

\* every high byte with the low bytes 0x00, 0x01, 0xD0 and 0xFF: among them
\* 0, 1, 0x7FFF, 0x8000, 34000 and 0xFFFF
U16Values == {v \in 0..(65536 - 1) : v % 256 \in {0, 1, 208, 255}}

InitUtil ==
    \E ver \in Versions, v \in U16Values :
        /\ version = ver
        /\ memory = Story(ver)
        /\ pc = header_pc(Story(ver))
        /\ frames = <<Frame_init(0, None, <<>>, <<>>)>>
        /\ original_dynamic = <<>>
        /\ exc = ""
        /\ op = Op("input", NoInstr, <<v>>, None)
        /\ steps = 0
        /\ savefile = <<>>
        /\ snap = NoSnap

FromU16ToI16 ==
    Does("from_u16_to_i16", NoInstr, op.args, from_u16_to_i16(op.args[1]), Z)

NextUtil ==
    /\ Running
    /\ steps < MaxUtilSteps
    /\ FromU16ToI16

SpecUtil == InitUtil /\ [][NextUtil]_vars

\* C12: for every v in 0..0xFFFF, from_u16_to_i16(v) is the two's-complement
\* value of v: v when v < 0x8000 and v - 0x10000 otherwise.
C12_TwosComplement ==
    op.name = "from_u16_to_i16" =>
        op.val = (IF op.args[1] < 32768 THEN op.args[1] ELSE op.args[1] - 65536)

----------------------------------------------------------------------------
(* Specification SpecTree: insert_obj and remove_obj on the object story   *)

InitObj ==
    \E v \in Versions :
        /\ version = v
        /\ memory = ObjStory(v)
        /\ pc = header_pc(ObjStory(v))
        /\ frames = <<Frame_init(0, None, <<>>, <<>>)>>
        /\ original_dynamic = <<>>
        /\ exc = ""
        /\ op = Op("load", NoInstr, <<>>, None)
        /\ steps = 0
        /\ savefile = <<>>
        /\ snap = NoSnap

Objs == 1..ObjCount

InsertObj ==
    \E o \in Objs, d \in Objs :
        Does("insert_obj", NoInstr, <<o, d>>, None, insert_obj(Z, o, d))

RemoveObj ==
    \E o \in Objs :
        Does("remove_obj", NoInstr, <<o>>, None, remove_obj(Z, o))

NextTree ==
    /\ Running
    /\ steps < MaxTreeSteps
    /\ \/ InsertObj
       \/ RemoveObj

SpecTree == InitObj /\ [][NextTree]_vars

\* the tree links as the machine z reads them
ParentOf(z, n) == get_parent(z, n)
ChildOf(z, n) == get_child(z, n)
SiblingOf(z, n) == get_sibling(z, n)

\* the sibling chain that starts at n reaches 0
RECURSIVE ChainEnds(_, _, _)
ChainEnds(z, n, seen) ==
    \/ n = 0
    \/ /\ n \notin seen
       /\ ChainEnds(z, SiblingOf(z, n), seen \cup {n})

\* C13: after any sequence of insert_obj and remove_obj calls on objects
\* >= 1 from the well-formed forest of the story, every object n with
\* child(n) # 0 has parent(child(n)) = n, and the sibling chain from any
\* object reaches 0.
C13_TreeWellFormed ==
    \A n \in Objs :
        /\ ChildOf(Z, n) # 0 => ParentOf(Z, ChildOf(Z, n)) = n
        /\ ChainEnds(Z, n, {})

\* a removal that left a parent and a child pointing at each other's old
\* places would show here: object 2 moved under 6, then 3 under 2
C13_Witness ==
    /\ op.name = "insert_obj"
    /\ op.args = <<3, 2>>
    /\ ParentOf(Z, 2) = 6
    /\ ChildOf(Z, 2) = 3
    /\ ChildOf(Z, 1) = 4

\* the machine after the step
ZNext == [version |-> version', memory |-> memory', pc |-> pc',
          frames |-> frames', exc |-> exc',
          original_dynamic |-> original_dynamic']

\* the children of p, first child first
RECURSIVE ChainFrom(_, _, _)
ChainFrom(z, n, seen) ==
    IF n = 0 \/ n \in seen THEN <<>>
    ELSE <<n>> \o ChainFrom(z, SiblingOf(z, n), seen \cup {n})

Children(z, p) == ChainFrom(z, ChildOf(z, p), {})

Without(chain, x) == LET Keep(e) == e # x IN SelectSeq(chain, Keep)

\* C14: insert_obj(obj, dest) with obj not the first child of dest leaves
\* parent(obj) = dest, child(dest) = obj, sibling(obj) = the previous first
\* child of dest, and obj is no longer in the child chain of its former
\* parent (also when that parent is dest); with obj already the first child
\* of dest nothing changes.
C14_InsertObj ==
    [][op'.name = "insert_obj" =>
          LET o == op'.args[1]
              d == op'.args[2]
              first == ChildOf(Z, d)
              p == ParentOf(Z, o)
          IN  IF first = o THEN memory' = memory /\ exc' = ""
              ELSE /\ exc' = ""
                   /\ ParentOf(ZNext, o) = d
                   /\ ChildOf(ZNext, d) = o
                   /\ SiblingOf(ZNext, o) = first
                   /\ Children(ZNext, d) = <<o>> \o Without(Children(Z, d), o)
                   /\ (p \notin {0, d}) =>
                         Children(ZNext, p) = Without(Children(Z, p), o)]_vars

\* object 4, the third child of 1, became the first child of 1
C14_Witness ==
    /\ op.name = "insert_obj"
    /\ op.args = <<4, 1>>
    /\ Children(Z, 1) = <<4, 2, 3, 5>>

\* C15: remove_obj(obj) with parent(obj) = p # 0 leaves parent(obj) = 0 and
\* sibling(obj) = 0 and makes the child chain of p its previous chain with
\* obj deleted, the others in the same order; with parent(obj) = 0 it
\* changes nothing.
C15_RemoveObj ==
    [][op'.name = "remove_obj" =>
          LET o == op'.args[1]
              p == ParentOf(Z, o)
          IN  IF p = 0 THEN memory' = memory /\ exc' = ""
              ELSE /\ exc' = ""
                   /\ ParentOf(ZNext, o) = 0
                   /\ SiblingOf(ZNext, o) = 0
                   /\ Children(ZNext, p) = Without(Children(Z, p), o)]_vars

\* object 4, the third of four children, was removed
C15_Witness ==
    /\ op.name = "remove_obj"
    /\ op.args = <<4>>
    /\ ParentOf(Z, 4) = 0
    /\ Children(Z, 1) = <<2, 3, 5>>

----------------------------------------------------------------------------
(* Specification SpecAttr: test_attr, set_attr and clear_attr               *)

AttrObjs == {2, 6}

\* the first and last attribute of the attribute bytes, the first numbers
\* past the 32 attributes of versions 1-3 and the 48 of versions 4+
AttrValues == {0, 7, 8, 15, 16, 31, 32, 33, 40, 47, 48, 49}

TestAttr ==
    \E n \in AttrObjs, a \in AttrValues :
        LET r == test_attr(Z, n, a)
        IN  Does("test_attr", NoInstr, <<n, a>>, r.val, r.z)

SetAttr ==
    \E n \in AttrObjs, a \in AttrValues :
        Does("set_attr", NoInstr, <<n, a>>, None, set_attr(Z, n, a))

ClearAttr ==
    \E n \in AttrObjs, a \in AttrValues :
        Does("clear_attr", NoInstr, <<n, a>>, None, clear_attr(Z, n, a))

NextAttr ==
    /\ Running
    /\ steps < MaxAttrSteps
    /\ \/ TestAttr
       \/ SetAttr
       \/ ClearAttr

SpecAttr == InitObj /\ [][NextAttr]_vars

\* the number of attributes of an object
AttrCount == IF version <= 3 THEN 32 ELSE 48

\* C16: for n >= 1 and a in [0, 8 * attr_width): after set_attr(n, a)
\* test_attr(n, a) is 1, after clear_attr(n, a) it is 0, and test_attr(m, b)
\* is unchanged for every other attribute b of n and every attribute of
\* every other object m.
C16_SetClearTest ==
    [][(op'.name \in {"set_attr", "clear_attr"} /\ op'.args[2] < AttrCount) =>
          LET n == op'.args[1]
              a == op'.args[2]
          IN  /\ exc' = ""
              /\ test_attr(ZNext, n, a).val
                    = (IF op'.name = "set_attr" THEN 1 ELSE 0)
              /\ \A m \in Objs, b \in 0..(AttrCount - 1) :
                    <<m, b>> # <<n, a>> =>
                        test_attr(ZNext, m, b).val = test_attr(Z, m, b).val]_vars

\* attribute 15 of object 2, set at load, was cleared; attribute 0 stays set
C16_Witness ==
    /\ op.name = "clear_attr"
    /\ op.args = <<2, 15>>
    /\ test_attr(Z, 2, 15).val = 0
    /\ test_attr(Z, 2, 0).val = 1
    /\ test_attr(Z, 2, 14).val = 0

\* C17: test_attr, set_attr and clear_attr raise for every attribute number
\* a >= 8 * attr_width, and memory is then not modified.
C17_AttrOutOfRange ==
    [][(op'.name \in {"test_attr", "set_attr", "clear_attr"}
            /\ op'.args[2] >= AttrCount) =>
          (exc' = "Exception" /\ memory' = memory)]_vars

----------------------------------------------------------------------------
(* Specification SpecProp: get_next_prop; op.val is the number returned    *)

\* the property numbers of the two versions
PropNumbers == 0..(64 - 1)

GetNextProp ==
    \E n \in Objs, p \in PropNumbers :
        Does("get_next_prop", NoInstr, <<n, p>>, get_next_prop(Z, n, p), Z)

NextProp ==
    /\ Running
    /\ steps < MaxPropSteps
    /\ GetNextProp

SpecProp == InitObj /\ [][NextProp]_vars

\* the property numbers stored on object n of the object story, in the
\* order of its table
StoredProps(v, n) ==
    IF n # 1 THEN <<>>
    ELSE IF v <= 3 THEN <<18, 5, 2>>
    ELSE <<40, 18, 5, 2>>

\* the element of props that follows p (the first one for p = 0), 0 after
\* the last
After(props, p) ==
    LET i == IF p = 0 THEN 0 ELSE CHOOSE k \in 1..Len(props) : props[k] = p
    IN  IF i < Len(props) THEN props[i + 1] ELSE 0

\* C18: the sequence get_next_prop(n, 0), get_next_prop(n, p1), ... lists
\* exactly the property numbers stored on n, in strictly descending order,
\* and yields 0 after the last one: get_next_prop(n, 0) is the first stored
\* number and get_next_prop(n, p), p stored on n, is the number stored
\* after p, or 0.
C18_NextPropEnumerates ==
    LET props == StoredProps(version, op.args[1])
    IN  (/\ op.name = "get_next_prop"
         /\ (op.args[2] = 0 \/ \E k \in 1..Len(props) : props[k] = op.args[2]))
            => op.val = After(props, op.args[2])

----------------------------------------------------------------------------
(* Text codec: packed strings (ZMachine.read_packed_string, zstring_length) *)
(* and zscii.unpack_string.  A decoded text is the sequence of the code     *)
(* points of its characters.                                                *)

header_abbrev_addr(mem) == zd_u16(mem, 24)

header_alpha_tab_addr(mem) == zd_u16(mem, 52)

header_hdr_ext_tab_addr(mem) == zd_u16(mem, 54)

header_unicode_tab_addr(mem) ==
    LET ext == header_hdr_ext_tab_addr(mem)
    IN  IF ext # 0 /\ zd_u16(mem, ext) >= 3 THEN zd_u16(mem, ext + 3) ELSE 0

DEFAULT_A0 == [i \in 1..26 |-> 96 + i]

DEFAULT_A1 == [i \in 1..26 |-> 64 + i]

\* " \n0123456789.,!?_#'\"/\\-:()"
DEFAULT_A2 ==
    <<32, 10, 48, 49, 50, 51, 52, 53, 54, 55, 56, 57, 46, 44, 33, 63, 95, 35,
      39, 34, 47, 92, 45, 58, 40, 41>>

\* " 0123456789.,!?_#'\"/\\<-:()"
DEFAULT_A2_Z1 ==
    <<32, 48, 49, 50, 51, 52, 53, 54, 55, 56, 57, 46, 44, 33, 63, 95, 35, 39,
      34, 47, 92, 60, 45, 58, 40, 41>>

\* the code points of ZSCII 155..223
DEFAULT_UNICODE_TABLE ==
    <<228, 246, 252, 196, 214, 220, 223, 187, 171, 235, 239, 255, 203, 207,
      225, 233, 237, 243, 250, 253, 193, 201, 205, 211, 218, 221, 224, 232,
      236, 242, 249, 192, 200, 204, 210, 217, 226, 234, 238, 244, 251, 194,
      202, 206, 212, 219, 229, 197, 248, 216, 227, 241, 245, 195, 209, 213,
      230, 198, 231, 199, 254, 240, 222, 208, 163, 339, 338, 161, 191>>

\* the result of a text operation: the characters and the exception raised
Text(chars, e) == [text |-> chars, exc |-> e]

\* zscii_to_ascii applied to the one-element list [c]
zscii_to_ascii(z, c) ==
    LET tab == header_unicode_tab_addr(z.memory)
    IN  IF c = 0 THEN Text(<<>>, "")
        ELSE IF c = 13 THEN Text(<<10>>, "")
        ELSE IF c >= 32 /\ c <= 126 THEN Text(<<c>>, "")
        ELSE IF c >= 155 /\ c <= 251 THEN
            IF tab # 0 THEN
                IF ~InMem(z.memory, tab) THEN Text(<<>>, "IndexError")
                ELSE IF (c - 155) < z.memory[tab] THEN
                    IF InMem(z.memory, tab + (c - 155))
                           /\ InMem(z.memory, tab + (c - 155) + 1)
                    THEN Text(<<zd_u16(z.memory, tab + (c - 155))>>, "")
                    ELSE Text(<<>>, "IndexError")
                ELSE Text(<<63>>, "")
            ELSE IF c - 154 \in DOMAIN DEFAULT_UNICODE_TABLE
                 THEN Text(<<DEFAULT_UNICODE_TABLE[c - 154]>>, "")
                 ELSE Text(<<63>>, "")
        ELSE Text(<<>>, "")

\* the words read and the exception raised by read_packed_string
RECURSIVE read_packed_string(_, _)
read_packed_string(mem, addr) ==
    IF ~(InMem(mem, addr) /\ InMem(mem, addr + 1))
    THEN [words |-> <<>>, exc |-> "IndexError"]
    ELSE LET word == zd_u16(mem, addr)
         IN  IF word >= 32768 THEN [words |-> <<word>>, exc |-> ""]
             ELSE LET rest == read_packed_string(mem, addr + 2)
                  IN  [words |-> <<word>> \o rest.words, exc |-> rest.exc]

\* zstring_length of a string that read_packed_string has read
RECURSIVE zstring_length(_, _)
zstring_length(mem, addr) ==
    IF zd_u16(mem, addr) >= 32768 THEN 2
    ELSE 2 + zstring_length(mem, addr + 2)

\* the three 5-bit characters of every word
split_text(packed_text) ==
    Concat([i \in 1..Len(packed_text) |->
                <<(packed_text[i] \div 1024) % 32,
                  (packed_text[i] \div 32) % 32,
                  packed_text[i] % 32>>])

\* the alphabets A0, A1, A2 that unpack_string works with
Alphabets(z) ==
    LET base == header_alpha_tab_addr(z.memory)
        custom == z.version >= 5 /\ base # 0
        a2 == IF custom THEN MemBytes(z.memory, base + 52, base + 78)
              ELSE DEFAULT_A2
    IN  [A0 |-> IF custom THEN MemBytes(z.memory, base, base + 26)
                ELSE DEFAULT_A0,
         A1 |-> IF custom THEN MemBytes(z.memory, base + 26, base + 52)
                ELSE DEFAULT_A1,
         A2 |-> IF z.version = 1 THEN DEFAULT_A2_Z1 ELSE a2]

\* shift_table[char][current_alphabet]; a later key of the dict wins
shift_table(A, char, current) ==
    IF char \in {2, 4}
    THEN (IF current = A.A2 THEN A.A0
          ELSE IF current = A.A1 THEN A.A2 ELSE A.A1)
    ELSE (IF current = A.A2 THEN A.A1
          ELSE IF current = A.A1 THEN A.A0 ELSE A.A2)

\* current_alphabet[char - 6] appended to the text
Indexed(s, char) ==
    IF char - 5 \in DOMAIN s.current_alphabet
    THEN [s EXCEPT !.text = Append(@, s.current_alphabet[char - 5])]
    ELSE [s EXCEPT !.exc = "IndexError"]

\* the end of the loop body: a temporary shift ends after one more character
Unshift(z, A, s) ==
    IF s.exc # "" THEN s
    ELSE IF s.temp_shift = 2
    THEN [s EXCEPT !.current_alphabet =
                       IF z.version < 3 THEN s.last_alphabet ELSE A.A0,
                   !.temp_shift = 0]
    ELSE IF s.temp_shift > 0 THEN [s EXCEPT !.temp_shift = @ + 1]
    ELSE s

\* unpack_string(zm, packed_text); seen holds the addresses of the
\* abbreviations being expanded, and an abbreviation that expands itself
\* ends in Python's RecursionError
RECURSIVE unpack_string(_, _, _)
RECURSIVE unpack_loop(_, _, _, _, _)
unpack_loop(z, A, chars, s, seen) ==
    IF s.exc # "" \/ Len(chars) = 0 THEN s
    ELSE
    LET char == Head(chars)
        mem == z.memory
        entry_addr == header_abbrev_addr(mem)
                        + 2 * (32 * (s.abbrev_shift - 1) + char)
        word_addr == zd_u16(mem, entry_addr)
        packed_string == read_packed_string(mem, word_addr * 2)
        sub == unpack_string(z, packed_string.words,
                             seen \cup {word_addr * 2})
        zs == zscii_to_ascii(z, s.current_10bit + char)
        s1 ==
            IF s.abbrev_shift > 0 THEN
                IF ~(InMem(mem, entry_addr) /\ InMem(mem, entry_addr + 1))
                THEN [s EXCEPT !.exc = "IndexError"]
                ELSE IF packed_string.exc # ""
                THEN [s EXCEPT !.exc = packed_string.exc]
                ELSE IF word_addr * 2 \in seen
                THEN [s EXCEPT !.exc = "RecursionError"]
                ELSE IF sub.exc # "" THEN [s EXCEPT !.exc = sub.exc]
                ELSE [s EXCEPT !.text = @ \o sub.text, !.abbrev_shift = 0]
            ELSE IF s.mode = "10BIT_HIGH" THEN
                [s EXCEPT !.mode = "10BIT_LOW", !.current_10bit = char * 32]
            ELSE IF s.mode = "10BIT_LOW" THEN
                IF zs.exc # "" THEN [s EXCEPT !.exc = zs.exc]
                ELSE [s EXCEPT !.mode = "NONE",
                               !.current_10bit = @ + char,
                               !.text = @ \o zs.text]
            ELSE IF char = 0 THEN [s EXCEPT !.text = Append(@, 32)]
            ELSE IF char = 6 /\ s.current_alphabet = A.A2 THEN
                [s EXCEPT !.mode = "10BIT_HIGH"]
            ELSE IF z.version > 1 /\ char = 7 /\ s.current_alphabet = A.A2
            THEN [s EXCEPT !.text = Append(@, 10)]
            ELSE IF z.version < 3 THEN
                IF char = 1 THEN
                    IF z.version = 1 THEN [s EXCEPT !.text = Append(@, 10)]
                    ELSE [s EXCEPT !.abbrev_shift = char]
                ELSE IF char \in {2, 3, 4, 5} THEN
                    [s EXCEPT !.last_alphabet = s.current_alphabet,
                              !.current_alphabet =
                                  shift_table(A, char, s.current_alphabet),
                              !.temp_shift = IF char \in {2, 3} THEN 1 ELSE 0]
                ELSE Indexed(s, char)
            ELSE
                IF char \in {1, 2, 3} THEN [s EXCEPT !.abbrev_shift = char]
                ELSE IF char = 4 THEN
                    [s EXCEPT !.current_alphabet = A.A1, !.temp_shift = 1]
                ELSE IF char = 5 THEN
                    [s EXCEPT !.current_alphabet = A.A2, !.temp_shift = 1]
                ELSE Indexed(s, char)
    IN  unpack_loop(z, A, Tail(chars), Unshift(z, A, s1), seen)

unpack_string(z, packed_text, seen) ==
    LET A == Alphabets(z)
        s == unpack_loop(z, A, split_text(packed_text),
                         [text |-> <<>>, current_alphabet |-> A.A0,
                          last_alphabet |-> A.A0, temp_shift |-> 0,
                          abbrev_shift |-> 0, current_10bit |-> 0,
                          mode |-> "NONE", exc |-> ""],
                         seen)
    IN  Text(s.text, s.exc)

\* ZMachine.read_zstring
read_zstring(z, addr) ==
    LET packed_str == read_packed_string(z.memory, addr)
    IN  IF packed_str.exc # "" THEN Text(<<>>, packed_str.exc)
        ELSE unpack_string(z, packed_str.words, {addr})

----------------------------------------------------------------------------
(* The instruction decoder: Instruction.decode and its helpers.  OpForm,    *)
(* OperandCount and OperandType members are modelled by their names.        *)

\* the values of the enum Opcode: Opcode(n) raises ValueError for any other
Opcode ==
    (1..28) \cup (128..143) \cup (176..189) \cup {191} \cup (224..255)
        \cup (1000..1013) \cup (1016..1029)

\* OPCODE_NAMES keyed by the opcode's value; there is no entry for OP1_129
OPCODE_NAMES == {
    <<1, "je">>, <<2, "jl">>, <<3, "jg">>, <<4, "dec_chk">>,
    <<5, "inc_chk">>, <<6, "jin">>, <<7, "test">>, <<8, "or">>,
    <<9, "and">>, <<10, "test_attr">>, <<11, "set_attr">>,
    <<12, "clear_attr">>, <<13, "store">>, <<14, "insert_obj">>,
    <<15, "loadw">>, <<16, "loadb">>, <<17, "get_prop">>,
    <<18, "get_prop_addr">>, <<19, "get_next_prop">>, <<20, "add">>,
    <<21, "sub">>, <<22, "mul">>, <<23, "dev">>, <<24, "mod">>,
    <<25, "call_2s">>, <<26, "call_2n">>, <<27, "set_colour">>,
    <<28, "throw">>, <<128, "jz">>, <<130, "get_sibling">>,
    <<131, "get_parent">>, <<132, "get_prop_len">>, <<133, "inc">>,
    <<134, "dec">>, <<135, "print_addr">>, <<136, "call_1s">>,
    <<137, "remove_obj">>, <<138, "print_obj">>, <<139, "ret">>,
    <<140, "jump">>, <<141, "print_paddr">>, <<142, "load">>,
    <<143, "not">>, <<176, "rtrue">>, <<177, "rfalse">>, <<178, "print">>,
    <<179, "print_ret">>, <<180, "nop">>, <<181, "save">>,
    <<182, "restore">>, <<183, "restart">>, <<184, "ret_popped">>,
    <<185, "pop">>, <<186, "quit">>, <<187, "new_line">>,
    <<188, "show_status">>, <<189, "verify">>, <<191, "piracy">>,
    <<224, "call">>, <<225, "storew">>, <<226, "storeb">>,
    <<227, "put_prop">>, <<228, "sread">>, <<229, "print_char">>,
    <<230, "print_num">>, <<231, "random">>, <<232, "push">>,
    <<233, "pull">>, <<234, "split_window">>, <<235, "set_window">>,
    <<236, "call_vs2">>, <<237, "erase_window">>, <<238, "erase_line">>,
    <<239, "set_cursor">>, <<240, "get_cursor">>,
    <<241, "set_text_style">>, <<242, "buffer_mode">>,
    <<243, "output_stream">>, <<244, "input_stream">>,
    <<245, "sound_effect">>, <<246, "read_char">>, <<247, "scan_table">>,
    <<248, "not">>, <<249, "call_vn">>, <<250, "call_vn2">>,
    <<251, "tokenise">>, <<252, "encode_text">>, <<253, "copy_table">>,
    <<254, "print_table">>, <<255, "check_arg_count">>, <<1000, "save">>,
    <<1001, "restore">>, <<1002, "log_shift">>, <<1003, "art_shift">>,
    <<1004, "set_font">>, <<1005, "draw_picture">>,
    <<1006, "picture_data">>, <<1007, "erase_picture">>,
    <<1008, "set_margins">>, <<1009, "save_undo">>,
    <<1010, "restore_undo">>, <<1011, "print_unicode">>,
    <<1012, "check_unicode">>, <<1013, "set_true_color">>,
    <<1016, "move_window">>, <<1017, "window_size">>,
    <<1018, "window_style">>, <<1019, "get_wind_prop">>,
    <<1020, "scroll_window">>, <<1021, "pop_stack">>,
    <<1022, "read_mouse">>, <<1023, "mouse_window">>,
    <<1024, "push_stack">>, <<1025, "put_wind_prop">>,
    <<1026, "print_form">>, <<1027, "make_menu">>,
    <<1028, "picture_table">>, <<1029, "buffer_screen">>
    }

\* Opcode.zop: the name, or "" where the lookup raises KeyError
zop(opcode) ==
    IF \E e \in OPCODE_NAMES : e[1] = opcode
    THEN (CHOOSE e \in OPCODE_NAMES : e[1] = opcode)[2]
    ELSE ""

\* OperandType.from_byte: the types named by the 2-bit fields of a type
\* byte, from the top, up to the first field 0b11
RECURSIVE from_byte_loop(_, _)
from_byte_loop(byte, shift) ==
    LET code == (byte \div shift) % 4
        type == IF code = 0 THEN "LARGE"
                ELSE IF code = 1 THEN "SMALL" ELSE "VARIABLE"
    IN  IF code = 3 THEN <<>>
        ELSE IF shift = 1 THEN <<type>>
        ELSE <<type>> \o from_byte_loop(byte, shift \div 4)

from_byte(byte) == from_byte_loop(byte, 64)

\* mutant: 0xBE is not told apart from the other bytes 0x80-0xBF
_get_opcode_form_NoExt(opcode) ==
    LET sel == (opcode \div 64) % 4
    IN  IF sel = 3 THEN "VAR"
        ELSE IF sel = 2 THEN "SHORT"
        ELSE "LONG"

_get_opcode_form(opcode) ==
    LET sel == (opcode \div 64) % 4
    IN  IF opcode = 190 THEN "EXT"
        ELSE IF sel = 3 THEN "VAR"
        ELSE IF sel = 2 THEN "SHORT"
        ELSE "LONG"

_get_operand_count(opcode, form) ==
    IF form = "VAR" THEN
        (IF (opcode \div 32) % 2 = 1 THEN "VAR" ELSE "TWO")
    ELSE IF form = "SHORT" THEN
        (IF (opcode \div 16) % 4 = 3 THEN "ZERO" ELSE "ONE")
    ELSE IF form = "EXT" THEN "VAR"
    ELSE "TWO"

does_store(opcode) ==
    opcode \in {8, 9, 15, 16, 17, 18, 19, 20, 21, 22, 23, 24, 25,
                129, 130, 131, 132, 136, 142, 143,
                224, 231, 236, 246, 248,
                1000, 1001, 1002, 1003, 1004, 1009, 1010}

does_branch(opcode, ver) ==
    \/ opcode \in {1, 2, 3, 4, 5, 6, 7, 10, 128, 129, 130, 189, 191, 247,
                   255, 1006, 1024, 1027}
    \/ opcode = 181 /\ ver < 4
    \/ opcode = 182 /\ ver < 4

does_text(opcode) == opcode \in {178, 179}

\* decode, first part: the opcode number, the operand types and the address
\* of the first operand, with the exception raised while reading them
decode_opcode(mem, addr) ==
    LET raw_code == zd_u8(mem, addr)
        form == _get_opcode_form(raw_code)
        count == _get_operand_count(raw_code, form)
        two_bytes == raw_code \in {236, 250}
        opcode_num ==
            IF form = "LONG" THEN raw_code % 32
            ELSE IF form = "SHORT" THEN
                (IF count = "ZERO" THEN (raw_code % 16) + 176
                 ELSE (raw_code % 16) + 128)
            ELSE IF form = "VAR" THEN
                (IF count = "TWO" THEN raw_code % 32
                 ELSE (raw_code % 32) + 224)
            ELSE zd_u8(mem, addr + 1) + 1000
        optypes ==
            IF form = "LONG" THEN
                <<IF (raw_code \div 64) % 2 = 1 THEN "VARIABLE" ELSE "SMALL",
                  IF (raw_code \div 32) % 2 = 1 THEN "VARIABLE" ELSE "SMALL">>
            ELSE IF form = "SHORT" THEN
                from_byte(((raw_code \div 16) % 4) * 64 + 63)
            ELSE IF form = "VAR" THEN
                from_byte(zd_u8(mem, addr + 1))
                    \o (IF two_bytes THEN from_byte(zd_u8(mem, addr + 2))
                        ELSE <<>>)
            ELSE from_byte(zd_u8(mem, addr + 2))
        op_pointer ==
            IF form \in {"LONG", "SHORT"} THEN addr + 1
            ELSE IF form = "VAR" THEN (IF two_bytes THEN addr + 3 ELSE addr + 2)
            ELSE addr + 3
    IN  IF ~InMem(mem, addr) THEN
            [form |-> "", count |-> "", opcode_num |-> None,
             optypes |-> <<>>, op_pointer |-> addr, exc |-> "IndexError"]
        ELSE IF ~InMem(mem, op_pointer - 1) THEN
            [form |-> form, count |-> count,
             opcode_num |-> IF form = "EXT" THEN None ELSE opcode_num,
             optypes |-> <<>>, op_pointer |-> addr, exc |-> "IndexError"]
        ELSE
            [form |-> form, count |-> count, opcode_num |-> opcode_num,
             optypes |-> optypes, op_pointer |-> op_pointer,
             exc |-> IF opcode_num \in Opcode THEN "" ELSE "ValueError"]

\* decode, the operands: the values read and the reader's position
RECURSIVE decode_operands(_, _, _)
decode_operands(mem, position, optypes) ==
    IF Len(optypes) = 0 THEN
        [operands |-> <<>>, position |-> position, exc |-> ""]
    ELSE
    LET size == IF Head(optypes) = "LARGE" THEN 2 ELSE 1
        value == IF size = 2 THEN zd_u16(mem, position)
                 ELSE zd_u8(mem, position)
        rest == decode_operands(mem, position + size, Tail(optypes))
    IN  IF ~InMem(mem, position + size - 1) THEN
            [operands |-> <<>>, position |-> position,
             exc |-> "IndexError"]
        ELSE [operands |-> <<value>> \o rest.operands,
              position |-> rest.position, exc |-> rest.exc]

\* mutant: the 14-bit offset is taken as unsigned
decode_branch_Unsigned(mem, position) ==
    LET b == zd_u8(mem, position)
        condition == b >= 128
        short == (b \div 64) % 2 = 1
        offset == IF short THEN b % 64
                  ELSE (b % 64) * 256 + zd_u8(mem, position + 1)
        after == IF short THEN position + 1 ELSE position + 2
    IN  IF ~InMem(mem, position) \/ ~InMem(mem, after - 1) THEN
            [branch |-> NoBranch, position |-> position,
             exc |-> "IndexError"]
        ELSE [branch |-> IF offset = 0 THEN BranchRet(condition, 0)
                         ELSE IF offset = 1 THEN BranchRet(condition, 1)
                         ELSE BranchTo(condition, after + offset - 2),
              position |-> after, exc |-> ""]

\* decode, the branch data read at the reader's position
decode_branch(mem, position) ==
    LET b == zd_u8(mem, position)
        condition == b >= 128
        short == (b \div 64) % 2 = 1
        raw == (b % 64) * 256 + zd_u8(mem, position + 1)
        offset == IF short THEN b % 64
                  ELSE IF raw >= 8192 THEN raw - 16384 ELSE raw
        after == IF short THEN position + 1 ELSE position + 2
    IN  IF ~InMem(mem, position) \/ ~InMem(mem, after - 1) THEN
            [branch |-> NoBranch, position |-> position,
             exc |-> "IndexError"]
        ELSE [branch |-> IF offset = 0 THEN BranchRet(condition, 0)
                         ELSE IF offset = 1 THEN BranchRet(condition, 1)
                         ELSE BranchTo(condition, after + offset - 2),
              position |-> after, exc |-> ""]

\* decode, the store variable read at the reader's position
decode_store(mem, position, opcode) ==
    IF ~does_store(opcode) THEN
        [store |-> None, position |-> position, exc |-> ""]
    ELSE IF ~InMem(mem, position) THEN
        [store |-> None, position |-> position, exc |-> "IndexError"]
    ELSE [store |-> zd_u8(mem, position), position |-> position + 1,
          exc |-> ""]

\* decode, the inline text at the reader's position and its length
decode_text(z, position, opcode) ==
    IF ~does_text(opcode) THEN
        [has_text |-> FALSE, text |-> <<>>, text_length |-> 0, exc |-> ""]
    ELSE [has_text |-> TRUE,
          text |-> read_zstring(z, position).text,
          text_length |->
              IF read_zstring(z, position).exc = ""
                     /\ Len(read_zstring(z, position).text) > 0
              THEN zstring_length(z.memory, position) ELSE 0,
          exc |-> read_zstring(z, position).exc]

\* decode, the instruction returned: the fields read by the parts above,
\* with the form and operand count chosen on the way, and the exception
\* raised.  A field that decode had not computed when it raised keeps its
\* empty value.
decode_return(addr, head, ops, st, br, tx, name) ==
    LET reached == IF head.exc # "" THEN 0
                   ELSE IF ops.exc # "" THEN 1
                   ELSE IF st.exc # "" THEN 2
                   ELSE IF br.exc # "" THEN 3
                   ELSE IF tx.exc # "" THEN 4
                   ELSE IF name = "" THEN 5
                   ELSE 6
    IN  [addr |-> addr,
         form |-> head.form,
         count |-> head.count,
         opcode |-> head.opcode_num,
         optypes |-> IF reached >= 1 THEN head.optypes ELSE <<>>,
         operands |-> IF reached >= 2 THEN ops.operands ELSE <<>>,
         store |-> IF reached >= 3 THEN st.store ELSE None,
         branch |-> IF reached >= 4 THEN br.branch ELSE NoBranch,
         has_text |-> reached >= 5 /\ tx.has_text,
         text |-> IF reached >= 5 THEN tx.text ELSE <<>>,
         name |-> IF reached >= 6 THEN name ELSE "",
         next_ |-> IF reached >= 6 THEN br.position + tx.text_length ELSE 0,
         exc |-> IF reached = 0 THEN head.exc
                 ELSE IF reached = 1 THEN ops.exc
                 ELSE IF reached = 2 THEN st.exc
                 ELSE IF reached = 3 THEN br.exc
                 ELSE IF reached = 4 THEN tx.exc
                 ELSE IF reached = 5 THEN "KeyError"
                 ELSE ""]

\* decode from the branch data on
decode_from_branch(z, addr, head, ops, st, br) ==
    decode_return(addr, head, ops, st, br,
                  decode_text(z, br.position, head.opcode_num),
                  zop(head.opcode_num))

\* decode from the store variable on
decode_from_store(z, addr, head, ops, st) ==
    decode_from_branch(z, addr, head, ops, st,
        IF does_branch(head.opcode_num, z.version)
        THEN decode_branch(z.memory, st.position)
        ELSE [branch |-> NoBranch, position |-> st.position, exc |-> ""])

\* decode from the operands on
decode_from_operands(z, addr, head, ops) ==
    decode_from_store(z, addr, head, ops,
        decode_store(z.memory, ops.position, head.opcode_num))

\* decode from the opcode on
decode_from_opcode(z, addr, head) ==
    decode_from_operands(z, addr, head,
        decode_operands(z.memory, head.op_pointer, head.optypes))

\* Instruction.decode(zm, addr)
decode(z, addr) == decode_from_opcode(z, addr, decode_opcode(z.memory, addr))

----------------------------------------------------------------------------
(* Specification SpecDecode: Instruction.decode applied to an instruction   *)
(* placed in the story at the start; op.args is the address decoded and     *)
(* op.val the result of decode.                                             *)

\* the addresses decoded: an even and an odd one among the globals
DecodeAddrs == {16 * 16, 19 * 16 + 1}

\* the bytes that follow the first byte when every first byte is tried:
\* two small constants and a branch; an EXT opcode number (save_undo), an
\* empty type byte and a store variable; a type byte naming two small
\* constants
OpcodeTails ==
    {<<5, 5, 196, 148, 165>>, <<9, 255, 7, 196, 128>>,
     <<95, 5, 5, 196, 128>>}

\* branching instructions up to their branch data: je in LONG and VAR form,
\* jz of a large constant and of a variable, get_child, verify
BranchHeads ==
    {<<1, 5, 5>>, <<193, 95, 5, 5>>, <<128, 0, 1>>, <<160, 1>>,
     <<146, 3, 7>>, <<189>>}

BranchFirstBytes ==
    {0, 1, 31, 32, 63, 64, 65, 66, 68, 127, 128, 129, 160, 191, 192, 193,
     196, 255}

BranchSecondBytes == {0, 1, 2, 253, 255}

\* print and print_ret with an inline string: "hello" in two words, one
\* word of padding characters (5 5 5), two words of padding characters
TextInputs ==
    {<<b>> \o t : b \in {178, 179},
                  t \in {<<53, 81, 198, 133>>, <<148, 165>>,
                         <<20, 165, 148, 165>>}}

DecodeInputs ==
    {<<b>> \o t : b \in 0..255, t \in OpcodeTails}
        \cup {h \o <<b1, b2>> : h \in BranchHeads, b1 \in BranchFirstBytes,
                                b2 \in BranchSecondBytes}
        \cup TextInputs

\* the story with the bytes placed at addr
StoryWith(v, addr, bytes) ==
    [a \in 0..(StoryLen - 1) |->
        IF a >= addr /\ a < addr + Len(bytes) THEN bytes[a - addr + 1]
        ELSE StoryByte(v, a)]

InitDecode ==
    \E v \in Versions, addr \in DecodeAddrs, bytes \in DecodeInputs :
        /\ version = v
        /\ memory = StoryWith(v, addr, bytes)
        /\ pc = header_pc(Story(v))
        /\ frames = <<Frame_init(0, None, <<>>, <<>>)>>
        /\ original_dynamic = <<>>
        /\ exc = ""
        /\ op = Op("input", NoInstr, <<addr>>, None)
        /\ steps = 0
        /\ savefile = <<>>
        /\ snap = NoSnap

Decode ==
    /\ steps < MaxDecodeSteps
    /\ Running
    /\ LET instr == decode(Z, op.args[1])
       IN  Does("decode", NoInstr, op.args, instr, Raise(Z, instr.exc))

NextDecode == Decode

SpecDecode == InitDecode /\ [][NextDecode]_vars

\* the form, operand count and opcode number that the table of the
\* decoder gives for the first byte b followed by the byte next
C19_Table(b, next) ==
    IF b = 190 THEN <<"EXT", "VAR", 1000 + next>>
    ELSE IF b <= 127 THEN <<"LONG", "TWO", b % 32>>
    ELSE IF b <= 175 THEN <<"SHORT", "ONE", (b % 16) + 128>>
    ELSE IF b <= 191 THEN <<"SHORT", "ZERO", (b % 16) + 176>>
    ELSE IF b <= 223 THEN <<"VAR", "TWO", b % 32>>
    ELSE <<"VAR", "VAR", (b % 32) + 224>>

\* C19: for every first byte the decoder selects the form, operand count and
\* opcode number of the table: 0xBE gives EXT with 1000 + next byte,
\* 0x00-0x7F LONG 2OP with b & 0x1F, 0x80-0xAF SHORT 1OP with
\* (b & 0x0F) + 128, 0xB0-0xBF SHORT 0OP with (b & 0x0F) + 176, 0xC0-0xDF
\* VAR-form 2OP with b & 0x1F and 0xE0-0xFF VAR with (b & 0x1F) + 224
C19_FormAndOpcode ==
    op.name = "decode" =>
        LET addr == op.args[1]
        IN  <<op.val.form, op.val.count, op.val.opcode>>
                = C19_Table(memory[addr], memory[addr + 1])

\* an EXT instruction decoded: save_undo, opcode 1000 + 9, storing to 7
C19_Witness ==
    /\ op.name = "decode"
    /\ memory[op.args[1]] = 190
    /\ op.val.form = "EXT"
    /\ op.val.opcode = 1009
    /\ op.val.name = "save_undo"
    /\ op.val.store = 7
    /\ exc = ""

\* the number of bytes that hold operands of the given types
RECURSIVE C20_OperandBytes(_)
C20_OperandBytes(optypes) ==
    IF Len(optypes) = 0 THEN 0
    ELSE (IF Head(optypes) = "LARGE" THEN 2 ELSE 1)
            + C20_OperandBytes(Tail(optypes))

\* the address of the first branch byte of the decoded instruction r:
\* after the opcode and type bytes, the operands and the store byte
C20_BranchAt(r) ==
    r.addr
        + (IF r.form \in {"LONG", "SHORT"} THEN 1
           ELSE IF r.form = "EXT" THEN 3
           ELSE IF memory[r.addr] \in {236, 250} THEN 3 ELSE 2)
        + C20_OperandBytes(r.optypes)
        + (IF r.store # None THEN 1 ELSE 0)

\* the branch record that the branch bytes b1, b2 at address at stand for
C20_Branch(b1, b2, at) ==
    LET short == (b1 \div 64) % 2 = 1
        raw == (b1 % 64) * 256 + b2
        offset == IF short THEN b1 % 64
                  ELSE IF raw >= 8192 THEN raw - 16384 ELSE raw
        after == IF short THEN at + 1 ELSE at + 2
    IN  [present |-> TRUE,
         condition |-> b1 >= 128,
         address |-> IF offset \in {0, 1} THEN None ELSE after + offset - 2,
         returns |-> IF offset \in {0, 1} THEN offset ELSE None]

\* C20: the branch of a decoded instruction has bit 7 of the first branch
\* byte as its condition, the low 6 bits as offset when bit 6 is set and the
\* signed 14-bit value otherwise; offset 0 gives a return-false record,
\* offset 1 a return-true record and any other offset the target (address
\* after the branch bytes) + offset - 2; the bytes 01 05 05 C4 at A decode
\* to je with operands [5, 5] and target A + 6
C20_BranchDecoding ==
    (op.name = "decode" /\ exc = "") =>
        LET r == op.val
            at == C20_BranchAt(r)
        IN  /\ r.branch.present =>
                r.branch = C20_Branch(memory[at], memory[at + 1], at)
            /\ (/\ memory[r.addr] = 1
                /\ memory[r.addr + 1] = 5
                /\ memory[r.addr + 2] = 5
                /\ memory[r.addr + 3] = 196)
                => /\ r.name = "je"
                   /\ r.operands = <<5, 5>>
                   /\ r.branch.present
                   /\ r.branch.condition
                   /\ r.branch.address = r.addr + 6

\* a jz whose two branch bytes 3F FD stand for the offset -3
C20_Witness ==
    /\ op.name = "decode"
    /\ exc = ""
    /\ op.val.name = "jz"
    /\ op.val.operands = <<1>>
    /\ memory[op.args[1] + 3] = 63
    /\ memory[op.args[1] + 4] = 253
    /\ op.val.branch.present
    /\ ~op.val.branch.condition
    /\ op.val.branch.address = op.args[1] + 5 - 3 - 2

\* the number of bytes of the packed string at addr: every word up to and
\* including the first one with bit 15 set
RECURSIVE C21_StringBytes(_, _)
C21_StringBytes(mem, addr) ==
    IF mem[addr] >= 128 THEN 2 ELSE 2 + C21_StringBytes(mem, addr + 2)

\* the number of bytes that the decoded instruction r occupies
C21_Size(r) ==
    LET at == C20_BranchAt(r)
    IN  (at - r.addr)
            + (IF ~r.branch.present THEN 0
               ELSE IF (memory[at] \div 64) % 2 = 1 THEN 1 ELSE 2)
            + (IF r.opcode \in {178, 179} THEN C21_StringBytes(memory, at)
               ELSE 0)

\* C21: for every decodable instruction at address a, next-PC is a plus the
\* number of bytes the instruction occupies: opcode and type bytes, operand
\* bytes, the store byte, the branch bytes and, for print and print_ret,
\* every word of the inline string up to and including the first word with
\* bit 15 set, also when the string decodes to empty text
C21_NextPc ==
    (op.name = "decode" /\ exc = "") =>
        op.val.next_ = op.val.addr + C21_Size(op.val)

----------------------------------------------------------------------------
(* Dictionary and tokeniser: ZMachine.populate_dictionary, check_dictionary *)
(* and tokenise.  A text is the sequence of the code points of its          *)
(* characters.                                                              *)

header_dict_addr(mem) == zd_u16(mem, 8)

\* ZMachine.separators after populate_dictionary
populate_separators(z) ==
    LET addr == header_dict_addr(z.memory)
    IN  [i \in 1..z.memory[addr] |-> z.memory[addr + i]]

\* ZMachine.dictionary after populate_dictionary: the pairs (entry text,
\* entry address) in the order in which they were inserted
populate_dictionary(z) ==
    LET addr == header_dict_addr(z.memory)
        first == addr + z.memory[addr] + 4
        entry_length == z.memory[first - 3]
        entry_count == zd_u16(z.memory, first - 2)
    IN  [n \in 1..entry_count |->
            <<read_zstring(z, first + (n - 1) * entry_length).text,
              first + (n - 1) * entry_length>>]

\* dict.get(key, 0): the value inserted last under the key
RECURSIVE dict_get(_, _, _)
dict_get(dictionary, key, n) ==
    IF n = 0 THEN 0
    ELSE IF dictionary[n][1] = key THEN dictionary[n][2]
    ELSE dict_get(dictionary, key, n - 1)

check_dictionary(ver, dictionary, word) ==
    dict_get(dictionary, Slice(word, 0, IF ver <= 3 THEN 6 ELSE 9),
             Len(dictionary))

\* str.replace(chr(sep), "  ")
RECURSIVE str_replace(_, _)
str_replace(str, sep) ==
    IF Len(str) = 0 THEN <<>>
    ELSE (IF Head(str) = sep THEN <<32, 32>> ELSE <<Head(str)>>)
            \o str_replace(Tail(str), sep)

\* input_str after the loop over the separators
RECURSIVE replace_separators(_, _)
replace_separators(str, seps) ==
    IF Len(seps) = 0 THEN str
    ELSE replace_separators(str_replace(str, Head(seps)), Tail(seps))

\* the characters at which str.split() splits
Whitespace == {9, 10, 11, 12, 13, 28, 29, 30, 31, 32, 133, 160}

\* str.split(): the maximal runs of characters that are not whitespace;
\* word is the run being read
RECURSIVE str_split(_, _)
str_split(str, word) ==
    IF Len(str) = 0 THEN (IF Len(word) = 0 THEN <<>> ELSE <<word>>)
    ELSE IF Head(str) \in Whitespace
    THEN (IF Len(word) = 0 THEN <<>> ELSE <<word>>)
            \o str_split(Tail(str), <<>>)
    ELSE str_split(Tail(str), Append(word, Head(str)))

\* str.find(sub) from index i on: the first index at which sub occurs in
\* str, or -1
RECURSIVE str_find(_, _, _)
str_find(str, sub, i) ==
    IF i + Len(sub) > Len(str) THEN 0 - 1
    ELSE IF SubSeq(str, i + 1, i + Len(sub)) = sub THEN i
    ELSE str_find(str, sub, i + 1)

\* found.get(token, 0)
found_get(found, token) ==
    IF token \in DOMAIN found THEN found[token] ELSE 0

\* the list tokens of tokenise: (dict_addr, len(token), token_addr) for
\* every token of token_list, found being the dict of the end offsets
RECURSIVE tokenise_tokens(_, _, _, _, _)
tokenise_tokens(ver, dictionary, text, token_list, found) ==
    IF Len(token_list) = 0 THEN <<>>
    ELSE
    LET token == Head(token_list)
        offset == found_get(found, token)
        position == str_find(Slice(text, offset, Len(text)), token, 0)
        start == IF ver <= 4 THEN 1 ELSE 2
    IN  <<<<check_dictionary(ver, dictionary, token), Len(token),
            offset + position + start>>>>
            \o tokenise_tokens(ver, dictionary, text, Tail(token_list),
                   (token :> (offset + position + Len(token))) @@ found)

\* the writes of tokenise for the tokens from the n-th on, the writer being
\* at addr; an exception ends them
RECURSIVE tokenise_write(_, _, _, _)
tokenise_write(z, addr, tokens, n) ==
    IF z.exc # "" \/ n > Len(tokens) THEN z
    ELSE
    LET z1 == zd_write_u16(z, addr, tokens[n][1])
        z2 == IF z1.exc # "" THEN z1
              ELSE zd_write_u8(z1, addr + 2, tokens[n][2])
        z3 == IF z2.exc # "" THEN z2
              ELSE zd_write_u8(z2, addr + 3, tokens[n][3])
    IN  tokenise_write(z3, addr + 4, tokens, n + 1)

\* ZMachine.tokenise(text, parse_addr) of a machine with the given
\* separators and dictionary
tokenise(z, separators, dictionary, text, parse_addr) ==
    tokenise_write(
        zd_write_u8(z, parse_addr + 1,
            Len(str_split(replace_separators(text, separators), <<>>))),
        parse_addr + 2,
        tokenise_tokens(z.version, dictionary, text,
            str_split(replace_separators(text, separators), <<>>),
            <<>>),
        1)

(* The tokeniser specification: a story with a dictionary of the words   *)
(* "a", "ab" and a word of full length, the separator ",", and one call  *)
(* of tokenise on a text drawn at the start.                             *)

DictAt == 37 * 16

\* the encoded words "a", "ab" and "aaaaaa" (v1-3) or "aaaaaaaaa" (v4+)
DictWords(v) ==
    IF v <= 3
    THEN <<<<24, 165, 148, 165>>, <<24, 229, 148, 165>>,
           <<24, 198, 152, 198>>>>
    ELSE <<<<24, 165, 20, 165, 148, 165>>, <<24, 229, 20, 165, 148, 165>>,
           <<24, 198, 24, 198, 152, 198>>>>

\* one separator (","), the entry length, three entries with three bytes
\* of data each
DictBytes(v) ==
    <<1, 44, Len(DictWords(v)[1]) + 3, 0, 3>>
        \o DictWords(v)[1] \o <<1, 1, 1>>
        \o DictWords(v)[2] \o <<2, 2, 2>>
        \o DictWords(v)[3] \o <<3, 3, 3>>

TokStory(v) ==
    [a \in 0..(StoryLen - 1) |->
        IF a = 8 THEN DictAt \div 256
        ELSE IF a = 9 THEN DictAt % 256
        ELSE IF a >= DictAt /\ a < DictAt + Len(DictBytes(v))
        THEN DictBytes(v)[a - DictAt + 1]
        ELSE StoryByte(v, a)]

\* the machine as constructed from the story, whose dictionary and
\* separators tokenise uses
TokMachine(v) == [version |-> v, memory |-> TokStory(v)]

TokChars == {32, 44, 97, 98}

MaxTextLen == 4

RECURSIVE TextsOfLen(_)
TextsOfLen(n) ==
    IF n = 0 THEN {<<>>}
    ELSE {Append(t, c) : t \in TextsOfLen(n - 1), c \in TokChars}

\* every text of up to MaxTextLen characters, and texts with words longer
\* than a dictionary entry
TokTexts ==
    UNION {TextsOfLen(n) : n \in 0..MaxTextLen}
        \cup {[i \in 1..n |-> 97] : n \in {6, 7, 9, 10}}
        \cup {<<97, 98, 44, 97, 32, 98>>, <<97, 32, 98, 97, 32, 97>>}

TokParseAddr == 24 * 16

InitTok ==
    \E v \in Versions, text \in TokTexts :
        /\ version = v
        /\ memory = TokStory(v)
        /\ pc = header_pc(Story(v))
        /\ frames = <<Frame_init(0, None, <<>>, <<>>)>>
        /\ original_dynamic = <<>>
        /\ exc = ""
        /\ op = Op("input", NoInstr, <<text, TokParseAddr>>, None)
        /\ steps = 0
        /\ savefile = <<>>
        /\ snap = NoSnap

Tokenise ==
    /\ steps < MaxTokSteps
    /\ Running
    /\ Does("tokenise", NoInstr, op.args, None,
            tokenise(Z, populate_separators(TokMachine(version)),
                     populate_dictionary(TokMachine(version)),
                     op.args[1], op.args[2]))

NextTok == Tokenise

SpecTok == InitTok /\ [][NextTok]_vars

\* the index of the first character of every token of the text, in order:
\* a token starts at a character that is neither a space nor a separator
\* and that follows the start of the text, a space or a separator
C22_Gap == {32, 44}

C22_Starts(text) ==
    {i \in 1..Len(text) :
        text[i] \notin C22_Gap /\ (i = 1 \/ text[i - 1] \in C22_Gap)}

\* the token that starts at index i
RECURSIVE C22_TokenAt(_, _)
C22_TokenAt(text, i) ==
    IF i > Len(text) \/ text[i] \in C22_Gap THEN <<>>
    ELSE <<text[i]>> \o C22_TokenAt(text, i + 1)

\* the words of the dictionary and their addresses
C22_Entry(v, word) ==
    LET n == IF v <= 3 THEN 6 ELSE 9
        key == SubSeq(word, 1, Min(n, Len(word)))
        a == DictAt + 5
        l == Len(DictWords(v)[1]) + 3
    IN  IF key = <<97>> THEN a
        ELSE IF key = <<97, 98>> THEN a + l
        ELSE IF key = [i \in 1..n |-> 97] THEN a + 2 * l
        ELSE 0

\* the 4-byte record of the token starting at index i
C22_Record(v, text, i) ==
    LET word == C22_TokenAt(text, i)
        d == C22_Entry(v, word)
    IN  <<d \div 256, d % 256, Len(word),
          (i - 1) + (IF v <= 4 THEN 1 ELSE 2)>>

\* the k-th smallest element of a set of numbers
RECURSIVE C22_Nth(_, _)
C22_Nth(S, k) ==
    LET least == CHOOSE x \in S : \A y \in S : x <= y
    IN  IF k = 1 THEN least ELSE C22_Nth(S \ {least}, k - 1)

\* C22: after tokenise(text, parse_addr) the byte at parse_addr + 1 is the
\* number of tokens and it is followed by one record of four bytes per
\* token, in the order of the input: the dictionary address of the token
\* truncated to 6 (v1-3) or 9 (v4+) characters, or 0 if it is not in the
\* dictionary, the length of the token, and the index of the first
\* character of this occurrence of the token plus 1 (v1-4) or 2 (v5+),
\* also when the token is repeated or is part of an earlier token
C22_ParseBuffer ==
    (op.name = "tokenise" /\ exc = "") =>
        LET text == op.args[1]
            starts == C22_Starts(text)
        IN  /\ memory[op.args[2] + 1] = Cardinality(starts)
            /\ \A k \in 1..Cardinality(starts) :
                  SubSeq([a \in 1..StoryLen |-> memory[a - 1]],
                         op.args[2] + 4 * k - 1, op.args[2] + 4 * k + 2)
                      = C22_Record(version, text, C22_Nth(starts, k))

----------------------------------------------------------------------------
(* The frame specification: a frame drawn at the start is serialised by   *)
(* Frame.to_list and read back by Frame.from_bytes.                       *)

FrameResumes == {0, 256, 291 * 256 + 69}

FrameStores == {None, 0, 7, 16}

FrameLocals ==
    {<<>>, <<50>>, <<100, 200, 300>>, [i \in 1..15 |-> 65535 - i]}

FrameStacks == {<<>>, <<1000, 2000>>, <<65535>>}

FrameArgCounts == {0, 1, 3, 7}

MaxFrameSteps == 2

InitFrame ==
    \E resume \in FrameResumes, store \in FrameStores,
       locals_ \in FrameLocals, stack \in FrameStacks,
       n \in FrameArgCounts :
        /\ n <= Len(locals_)
        /\ version = 5
        /\ memory = Story(5)
        /\ pc = header_pc(Story(5))
        /\ frames = <<[Frame_init(resume, store, locals_,
                                  SubSeq(locals_, 1, n))
                          EXCEPT !.stack = stack]>>
        /\ original_dynamic = <<>>
        /\ exc = ""
        /\ op = Op("input", NoInstr, <<>>, None)
        /\ steps = 0
        /\ savefile = <<>>
        /\ snap = NoSnap

\* serialized = frame.to_list()
ToList ==
    /\ steps < MaxFrameSteps
    /\ Running
    /\ Does("to_list", NoInstr, <<frames[1]>>, Frame_to_list(frames[1]), Z)

\* restored = Frame.from_bytes(bytearray(serialized))
FromBytes ==
    /\ steps < MaxFrameSteps
    /\ Running
    /\ op.name = "to_list"
    /\ Does("from_bytes", NoInstr, op.args, op.val,
            [Z EXCEPT !.frames = <<Frame_from_bytes(op.val)>>])

NextFrame == ToList \/ FromBytes

SpecFrame == InitFrame /\ [][NextFrame]_vars

\* C23: Frame.from_bytes(f.to_list()) has the return PC, the store variable
\* (None stays None, a number stays that number), the argument count, the
\* locals and the evaluation stack of f, for every frame f with at most 15
\* locals, at most 7 supplied arguments and 16-bit values
C23_FrameRoundTrip ==
    op.name = "from_bytes" =>
        /\ frames[1].resume = op.args[1].resume
        /\ frames[1].store = op.args[1].store
        /\ frames[1].arg_count = op.args[1].arg_count
        /\ frames[1].locals = op.args[1].locals
        /\ frames[1].stack = op.args[1].stack

\* the Stks record of a frame: return PC, flags, store byte, argument
\* mask, stack length, locals, stack
C29_Stks(f) ==
    <<f.resume \div 65536, (f.resume \div 256) % 256, f.resume % 256,
      Len(f.locals) + (IF f.store = None THEN 16 ELSE 0),
      IF f.store = None THEN 0 ELSE f.store,
      2 ^ f.arg_count - 1,
      Len(f.stack) \div 256, Len(f.stack) % 256>>
        \o Concat([i \in 1..Len(f.locals) |->
                      <<f.locals[i] \div 256, f.locals[i] % 256>>])
        \o Concat([i \in 1..Len(f.stack) |->
                      <<f.stack[i] \div 256, f.stack[i] % 256>>])

\* C29: Frame.to_list emits the Quetzal Stks layout, with bit 4 of the
\* flags byte clear iff the frame has a store variable, and
\* Frame.from_bytes reads bit 4 with the same meaning: the frame it builds
\* has no store variable iff the bit is set
C29_StksLayout ==
    /\ op.name = "to_list" => op.val = C29_Stks(op.args[1])
    /\ op.name = "from_bytes" =>
          (frames[1].store = None <=> (op.val[4] \div 16) % 2 = 1)

----------------------------------------------------------------------------
(* The CMem specification: a pair of byte sequences of equal length drawn *)
(* at the start is compressed by _compress_cmem and the result is         *)
(* decompressed by _decompress_cmem against the same original.            *)

CMemBytes == {0, 1, 255}

MaxCMemLen == 3

RECURSIVE CMemSeqs(_)
CMemSeqs(n) ==
    IF n = 0 THEN {<<>>}
    ELSE {Append(s, b) : s \in CMemSeqs(n - 1), b \in CMemBytes}

\* lengths with runs of more than 256 equal bytes
CMemLongLens == {257, 258, 300}

\* a sequence of n bytes, all fill except the first and the last one
CMemLong(n, first, fill, last) ==
    [i \in 1..n |-> IF i = 1 THEN first ELSE IF i = n THEN last ELSE fill]

\* the pairs (dynamic, original): every pair of short sequences of equal
\* length, and long originals with dynamic equal to them or different at
\* the very beginning, at the very end or at both
CMemInputs ==
    UNION {CMemSeqs(n) \X CMemSeqs(n) : n \in 0..MaxCMemLen}
        \cup {<<CMemLong(n, first, fill, last), CMemLong(n, fill, fill, fill)>> :
                n \in CMemLongLens, fill \in {0, 7},
                first \in {0, 7, 9}, last \in {0, 7, 9}}

MaxCMemSteps == 2

InitCMem ==
    \E input \in CMemInputs :
        /\ version = 5
        /\ memory = Story(5)
        /\ pc = header_pc(Story(5))
        /\ frames = <<Frame_init(0, None, <<>>, <<>>)>>
        /\ original_dynamic = <<>>
        /\ exc = ""
        /\ op = Op("input", NoInstr, input, None)
        /\ steps = 0
        /\ savefile = <<>>
        /\ snap = NoSnap

\* compressed = _compress_cmem(dynamic, original)
Compress ==
    /\ steps < MaxCMemSteps
    /\ Running
    /\ op.name # "_compress_cmem"
    /\ Does("_compress_cmem", NoInstr, op.args,
            _compress_cmem(op.args[1], op.args[2]), Z)

\* restored = _decompress_cmem(compressed, original)
Decompress ==
    /\ steps < MaxCMemSteps
    /\ Running
    /\ op.name = "_compress_cmem"
    /\ Does("_decompress_cmem", NoInstr, op.args,
            _decompress_cmem(op.val, op.args[2]), Z)

NextCMem == Compress \/ Decompress

SpecCMem == InitCMem /\ [][NextCMem]_vars

\* C24: for byte sequences dynamic and original of equal length,
\* _decompress_cmem(_compress_cmem(dynamic, original), original) is
\* dynamic, and _compress_cmem(x, x) is empty
C24_CMemRoundTrip ==
    /\ op.name = "_decompress_cmem" => op.val = op.args[1]
    /\ (op.name = "_compress_cmem" /\ op.args[1] = op.args[2]) =>
          op.val = <<>>

\* a sequence with a run of more than 256 equal bytes between a difference
\* at the very beginning and one at the very end has been restored
C24_Witness ==
    /\ op.name = "_decompress_cmem"
    /\ Len(op.args[1]) > 256 + 2
    /\ op.args[1][1] # op.args[2][1]
    /\ op.args[1][Len(op.args[1])] # op.args[2][Len(op.args[2])]
    /\ op.val = op.args[1]

----------------------------------------------------------------------------
(* Snapshots: snapshot.freeze and snapshot.thaw.  The JSON text is the    *)
(* record of its members, a number being the number it is parsed to; the  *)
(* base64 text is the sequence of the alphabet indices of its characters, *)
(* 64 standing for the padding character "=".                             *)

\* base64.b64encode: four characters for every group of up to three bytes
b64encode(bytes_) ==
    [i \in 1..(4 * ((Len(bytes_) + 2) \div 3)) |->
        LET g == 3 * ((i - 1) \div 4)
            b0 == bytes_[g + 1]
            b1 == IF g + 2 <= Len(bytes_) THEN bytes_[g + 2] ELSE 0
            b2 == IF g + 3 <= Len(bytes_) THEN bytes_[g + 3] ELSE 0
        IN  CASE (i - 1) % 4 = 0 -> b0 \div 4
              [] (i - 1) % 4 = 1 -> (b0 % 4) * 16 + b1 \div 16
              [] (i - 1) % 4 = 2 -> IF g + 2 > Len(bytes_) THEN 64
                                    ELSE (b1 % 16) * 4 + b2 \div 64
              [] OTHER           -> IF g + 3 > Len(bytes_) THEN 64
                                    ELSE b2 % 64]

\* base64.b64decode of a padded text: three bytes for every four
\* characters, less one for every padding character
b64decode(text) ==
    LET padding == Cardinality({i \in 1..Len(text) : text[i] = 64})
    IN  [i \in 1..(3 * (Len(text) \div 4) - padding) |->
            LET g == 4 * ((i - 1) \div 3)
            IN  CASE (i - 1) % 3 = 0 ->
                        text[g + 1] * 4 + text[g + 2] \div 16
                  [] (i - 1) % 3 = 1 ->
                        (text[g + 2] % 16) * 16 + text[g + 3] \div 4
                  [] OTHER ->
                        (text[g + 3] % 4) * 64 + text[g + 4]]

\* snapshot.freeze (the state of the random number generator apart)
freeze(zm) ==
    [memory |-> b64encode(MemBytes(zm.memory, 0, Cardinality(DOMAIN zm.memory))),
     pc     |-> zm.pc,
     frames |-> [i \in 1..Len(zm.frames) |-> Frame_to_list(zm.frames[i])]]

\* snapshot.thaw.  json.loads returns the state of the random number
\* generator as a list with a list inside, which Random.setstate refuses
\* with TypeError after memory, pc and frames have been assigned.
thaw(zm, json_str) ==
    LET memory_ == b64decode(json_str.memory)
    IN  [zm EXCEPT
            !.memory = [a \in DOMAIN zm.memory |->
                           IF a < Len(memory_) THEN memory_[a + 1]
                           ELSE zm.memory[a]],
            !.pc = json_str.pc,
            !.frames = [i \in 1..Len(json_str.frames) |->
                           Frame_from_bytes(json_str.frames[i])],
            !.exc = "TypeError"]

(* The snapshot specification: calls, returns, pushes and stores change   *)
(* the machine between a freeze and the thaw of its result.               *)

MaxSnapSteps == 3

Freeze ==
    /\ Apply(Z)
    /\ savefile' = freeze(Z)
    /\ snap' = [memory |-> memory, pc |-> pc, frames |-> frames]
    /\ op' = Op("freeze", NoInstr, <<>>, None)
    /\ steps' = steps + 1
    /\ UNCHANGED original_dynamic

Thaw ==
    /\ snap # NoSnap
    /\ Does("thaw", NoInstr, <<>>, None, thaw(Z, savefile))

NextSnap ==
    /\ Running
    /\ steps < MaxSnapSteps
    /\ \/ QCall
       \/ QRet
       \/ QPush
       \/ QStorew
       \/ QStoreb
       \/ Freeze
       \/ Thaw

SpecSnap == Init /\ [][NextSnap]_vars

\* C25: thaw applied to the string produced by freeze in state S (snap),
\* after any intervening changes, restores the full memory buffer, the PC
\* and the frame list of S: as many frames, each with the same return PC,
\* store variable, locals, evaluation stack and argument count
C25_SnapshotRoundTrip ==
    op.name = "thaw" =>
        /\ memory = snap.memory
        /\ pc = snap.pc
        /\ frames = snap.frames

----------------------------------------------------------------------------
(* Header.file_length, ZMachine.calculate_checksum and op_verify *)

\* Header.file_length
header_file_length(mem) == zd_u16(mem, 26)

\* the sum of mem.u8(i) for i in range(a, b), by halves
RECURSIVE sum_u8(_, _, _)
sum_u8(mem, a, b) ==
    IF b <= a THEN 0
    ELSE IF b = a + 1 THEN zd_u8(mem, a)
    ELSE sum_u8(mem, a, (a + b) \div 2) + sum_u8(mem, (a + b) \div 2, b)

\* ZMachine.calculate_checksum: the value returned, or the IndexError of a
\* read after the end of memory
calculate_checksum(z) ==
    IF header_file_length(z.memory) > 64
            /\ ~InMem(z.memory, header_file_length(z.memory) - 1)
    THEN [val |-> None, exc |-> "IndexError"]
    ELSE [val |-> sum_u8(z.memory, 64, header_file_length(z.memory)) % 65536,
          exc |-> ""]

op_verify(z, instr, args) ==
    IF calculate_checksum(z).exc # "" THEN Raise(z, calculate_checksum(z).exc)
    ELSE process_branch(z, instr.branch, instr.next_,
                        calculate_checksum(z).val = header_checksum(z.memory))

(* The header specification: stories of every version with a length word *)
(* and a checksum word drawn at the start.                               *)

HeaderVersions == 1..8

LengthWords == {0, 40, 80, 160, 320}

\* the file length in bytes that a length word stands for
C26_Length(v, raw) ==
    raw * (IF v <= 3 THEN 2 ELSE IF v <= 5 THEN 4 ELSE 8)

\* the sum of the bytes of the story from 0x40 to its end, modulo 2^16
C27_Sum(mem) ==
    sum_u8(mem, 64, C26_Length(mem[0], zd_u16(mem, 26))) % 65536

\* checksum words: the sum of the story's bytes, the sum of the bytes below
\* the address given by the length word, and one that is neither
ChecksumWords(v, raw) ==
    {C27_Sum(StoryWith(v, 26, WordBytes(raw))),
     sum_u8(Story(v), 64, raw) % 65536,
     190 * 256 + 239}

MaxHeaderSteps == 1

\* the stories whose length word stands for at most the bytes they have
InitHeader ==
    \E v \in HeaderVersions, raw \in LengthWords :
        /\ C26_Length(v, raw) <= StoryLen
        /\ \E sum \in ChecksumWords(v, raw) :
            /\ version = v
            /\ memory = StoryWith(v, 26, WordBytes(raw) \o WordBytes(sum))
            /\ pc = header_pc(Story(v))
            /\ frames = <<Frame_init(0, None, <<>>, <<>>)>>
            /\ original_dynamic = <<>>
            /\ exc = ""
            /\ op = Op("load", NoInstr, <<>>, None)
            /\ steps = 0
            /\ savefile = <<>>
            /\ snap = NoSnap

\* zm.header.file_length
ReadFileLength ==
    Does("file_length", NoInstr, <<>>, header_file_length(memory), Z)

\* zm.calculate_checksum()
CalculateChecksum ==
    Does("calculate_checksum", NoInstr, <<>>, calculate_checksum(Z).val,
         Raise(Z, calculate_checksum(Z).exc))

OpVerify ==
    \E condition \in BOOLEAN :
        LET instr == Instr(None, BranchTo(condition, 768), 258)
        IN  Does("verify", instr, <<>>, None, op_verify(Z, instr, <<>>))

NextHeader ==
    /\ Running
    /\ steps < MaxHeaderSteps
    /\ \/ ReadFileLength
       \/ CalculateChecksum
       \/ OpVerify

SpecHeader == InitHeader /\ [][NextHeader]_vars

\* C26: Header.file_length is the word at 0x1A times 2 in versions 1-3,
\* times 4 in versions 4-5 and times 8 from version 6 on
C26_FileLength ==
    op.name = "file_length" =>
        op.val = C26_Length(memory[0], zd_u16(memory, 26))

\* C27: calculate_checksum returns the sum of the bytes from 0x40 up to
\* but excluding the file length in bytes (the length word times the
\* version's multiplier) modulo 2^16, and verify takes its branch iff that
\* sum equals the checksum word of the header
C27_Checksum ==
    /\ (op.name = "calculate_checksum" /\ exc = "") =>
          op.val = C27_Sum(memory)
    /\ (op.name = "verify" /\ exc = "") =>
          (pc = op.instr.branch.address
              <=> (op.instr.branch.condition
                      <=> C27_Sum(memory) = header_checksum(memory)))

----------------------------------------------------------------------------
(* op_restart, and the original dynamic memory *)

\* ZMachine.initial_pc: the header's initial PC when the story was loaded
initial_pc(v) == header_pc(Story(v))

\* op_restart: z is the machine after it, running the value of zm.running
op_restart(z, instr, args) == [z |-> z, running |-> FALSE]

MaxRestartSteps == 3

OpRestart ==
    LET r == op_restart(Zq, NoInstr, <<>>)
    IN  Does("restart", NoInstr, <<>>, r.running, r.z)

\* the run loop ends when zm.running is False
NextRestart ==
    /\ Running
    /\ op.name # "restart"
    /\ steps < MaxRestartSteps
    /\ \/ QCall
       \/ QRet
       \/ QPush
       \/ QStorew
       \/ QStoreb
       \/ OpRestart

SpecRestart == Init /\ [][NextRestart]_vars

\* C28: restart, dispatched in any state, sets PC to the initial PC of the
\* story, the header's initial PC captured when the story was loaded
C28_RestartPc ==
    op.name = "restart" => pc = initial_pc(version)

\* C30: from the construction of the machine on, original_dynamic is the
\* story's bytes from 0 up to the static memory address, whatever has been
\* executed, saved or restored since
C30_OriginalDynamic ==
    original_dynamic
        = MemBytes(Story(version), 0, header_static_memory_addr(Story(version)))

----------------------------------------------------------------------------
(* Further properties of save and restore *)

\* the number of bytes that run-length data describes: one for a non-zero
\* byte, the count and one more for a zero byte and its count
RECURSIVE C31_Expanded(_, _)
C31_Expanded(cmem, src) ==
    IF src >= Len(cmem) THEN 0
    ELSE IF cmem[src + 1] # 0 THEN 1 + C31_Expanded(cmem, src + 1)
    ELSE IF src + 1 < Len(cmem)
    THEN cmem[src + 2] + 1 + C31_Expanded(cmem, src + 2)
    ELSE 1

\* the number of bytes that the memory chunk of a save file describes
C31_Payload(data) ==
    LET chunks == _parse_chunks(Slice(data, 12, Len(data)))
    IN  IF chunk_in(chunks, CMem)
        THEN C31_Expanded(chunk_get(chunks, CMem), 0)
        ELSE IF chunk_in(chunks, UMem) THEN Len(chunk_get(chunks, UMem))
        ELSE 0

\* C31: restore of a save file whose memory chunk, UMem or CMem, describes
\* more bytes than static_memory_addr raises and leaves memory unchanged
C31_PayloadTooLarge ==
    [][(op'.name = "restore"
            /\ C31_Payload(op'.args) > header_static_memory_addr(memory))
        => (exc' = "ValueError" /\ memory' = memory)]_vars

----------------------------------------------------------------------------
(* Property addresses and put_prop *)

get_prop_addr(z, obj_id, property_number) ==
    LET prop == find_prop(z, obj_id, property_number)
    IN  IF prop.number # 0 THEN prop.addr ELSE 0

put_prop(z, obj_id, property_number, value) ==
    LET prop == find_prop(z, obj_id, property_number)
    IN  IF prop.length = 1 THEN zd_write_u8(z, prop.addr, value)
        ELSE zd_write_u16(z, prop.addr, value)

(* The property specification of find_prop, get_prop_addr and put_prop on *)
(* the object story                                                       *)

MaxPutSteps == 1

PutValues == {7, 18 * 256 + 52}

FindProp ==
    \E n \in Objs, p \in PropNumbers :
        Does("find_prop", NoInstr, <<n, p>>, find_prop(Z, n, p), Z)

GetPropAddr ==
    \E n \in Objs, p \in PropNumbers :
        Does("get_prop_addr", NoInstr, <<n, p>>, get_prop_addr(Z, n, p), Z)

PutProp ==
    \E n \in Objs, p \in PropNumbers, v \in PutValues :
        Does("put_prop", NoInstr, <<n, p, v>>, None, put_prop(Z, n, p, v))

NextPut ==
    /\ Running
    /\ steps < MaxPutSteps
    /\ \/ FindProp
       \/ GetPropAddr
       \/ PutProp

SpecPut == InitObj /\ [][NextPut]_vars

\* the property record whose size byte is at s: number, length, address of
\* the data and address of the next record
C32_Record(mem, v, s) ==
    LET b == mem[s]
        two == v >= 4 /\ b >= 128
        length == IF v <= 3 THEN b \div 32 + 1
                  ELSE IF two
                  THEN (IF mem[s + 1] % 64 = 0 THEN 64 ELSE mem[s + 1] % 64)
                  ELSE IF (b \div 64) % 2 = 1 THEN 2 ELSE 1
        data == IF two THEN s + 2 ELSE s + 1
    IN  [number |-> IF v <= 3 THEN b % 32 ELSE b % 64, length |-> length,
         addr |-> data, next_ |-> data + length]

\* the record of property p in the table whose records start at s, the
\* record of number 0 if there is none
RECURSIVE C32_Find(_, _, _, _)
C32_Find(mem, v, s, p) ==
    LET r == C32_Record(mem, v, s)
    IN  IF r.number = 0 \/ r.number = p THEN r
        ELSE C32_Find(mem, v, r.next_, p)

\* the record of property p of object n
C32_PropOf(z, n, p) ==
    LET table == get_object_prop_table_addr(z, n)
    IN  C32_Find(z.memory, z.version, table + 1 + 2 * z.memory[table], p)

\* C32: in versions 4+ a property whose size byte at s has its top bit set
\* has the number byte(s) & 0x3F and the length byte(s + 1) & 0x3F (0 for
\* 64), its data at s + 2 and the next record at s + 2 + length: find_prop
\* finds every property that an object has, this one and those stored
\* after it, and get_prop_addr returns the address of its data
C32_TwoByteSize ==
    (version >= 4 /\ op.name \in {"find_prop", "get_prop_addr"}
        /\ op.args[2] # 0
        /\ C32_PropOf(Z, op.args[1], op.args[2]).number # 0) =>
            IF op.name = "find_prop"
            THEN op.val = C32_PropOf(Z, op.args[1], op.args[2])
            ELSE op.val = C32_PropOf(Z, op.args[1], op.args[2]).addr

\* the addresses of the bytes that put_prop(n, p, v) may write
C33_Slot(z, n, p) ==
    LET r == C32_PropOf(z, n, p)
    IN  IF p = 0 \/ r.number = 0 THEN {}
        ELSE IF r.length = 1 THEN {r.addr}
        ELSE {r.addr, r.addr + 1}

\* C33: put_prop(n, p, v) changes only bytes of the data of property p of
\* object n, one byte of a property of length 1 and the first two bytes
\* of a longer one, and nothing when n has no property p
C33_PutPropFrame ==
    [][op'.name = "put_prop" =>
          \A a \in DOMAIN memory :
              memory'[a] # memory[a] =>
                  a \in C33_Slot(Z, op'.args[1], op'.args[2])]_vars

----------------------------------------------------------------------------
(* The specification of insert_obj with any destination, the null object *)
(* 0 included, and remove_obj                                            *)

MaxMoveSteps == 2

InsertObjAny ==
    \E o \in Objs, d \in 0..ObjCount :
        Does("insert_obj", NoInstr, <<o, d>>, None, insert_obj(Z, o, d))

NextMove ==
    /\ Running
    /\ steps < MaxMoveSteps
    /\ \/ InsertObjAny
       \/ RemoveObj

SpecMove == InitObj /\ [][NextMove]_vars

\* the addresses of the parent, sibling and child fields of object n
C34_Links(z, n) ==
    LET first == get_object_addr(z, n) + attr_width(z)
    IN  first..(first + (IF z.version <= 3 THEN 2 ELSE 5))

\* the objects whose fields a move of obj to dest may change: obj, dest,
\* the parent of obj and the sibling just before obj
C34_Touched(z, obj, dest) ==
    ({obj, dest, get_parent(z, obj)}
        \cup {m \in Objs : get_sibling(z, m) = obj}) \ {0}

\* C34: insert_obj(obj, dest) and remove_obj(obj) change only parent,
\* sibling and child fields of obj, of dest, of the former parent of obj
\* and of its former next-older sibling; with dest the null object 0 no
\* field of object 1 is written for it: obj does not become the child of
\* object 1
C34_MoveFrame ==
    [][(op'.name \in {"insert_obj", "remove_obj"} /\ exc' = "") =>
          LET obj == op'.args[1]
              dest == IF op'.name = "insert_obj" THEN op'.args[2] ELSE 0
          IN  /\ \A a \in DOMAIN memory :
                    memory'[a] # memory[a] =>
                        \E n \in C34_Touched(Z, obj, dest) :
                            a \in C34_Links(Z, n)
              /\ (op'.name = "insert_obj" /\ dest = 0) =>
                    get_child(ZNext, 1) # obj]_vars

----------------------------------------------------------------------------
(* Invariants of the call stack *)

\* C35: in every reachable state the frame list holds at least the initial
\* frame: no ret, rtrue, rfalse or ret_popped executed while only the
\* initial frame exists removes it
C35_BottomFrame == Len(frames) >= 1

(* The specification of calls of routines with 15 and with 16 locals *)

MaxLocalsSteps == 2

\* call instructions: <<resolved arguments, store variable>>
LocalsCallFixtures(v) ==
    { <<<<Packed(v, r)>> \o a, st>> :
        r \in {RoutineA, RoutineC, RoutineD}, a \in {<<>>, <<7, 8>>},
        st \in {None, 0, 5} }

LocalsCall ==
    \E f \in LocalsCallFixtures(version) :
        LET instr == Instr(f[2], NoBranch, 256)
        IN  Does("call", instr, f[1], None, op_call(Z, instr, f[1]))

NextLocals ==
    /\ Running
    /\ steps < MaxLocalsSteps
    /\ \/ LocalsCall
       \/ OpRet
       \/ OpPush

SpecLocals == Init /\ [][NextLocals]_vars

\* C36: every frame on the call stack has at most 15 locals, so that the
\* number of locals in the flags byte of a serialised frame stays below
\* bit 4: a call of a routine whose count byte exceeds 15 raises and
\* creates no frame
C36_LocalsAtMost15 ==
    \A i \in 1..Len(frames) :
        /\ Len(frames[i].locals) <= 15
        /\ Frame_to_list(frames[i])[4] % 16 = Len(frames[i].locals)

----------------------------------------------------------------------------
(* The specification of stores below and from the static memory address *)
(* (544 in the story): storew, storeb and writes of globals             *)

MaxStaticSteps == 2

\* storew array index value: global 0, the last word of dynamic memory,
\* the word across the boundary, the first and the last word of static
\* memory
StaticStorewArgs ==
    { <<64, 0, 43981>>, <<34 * 16 - 2, 0, 43981>>, <<34 * 16 - 1, 0, 43981>>,
      <<34 * 16 - 2, 1, 43981>>, <<34 * 16, 0, 43981>>,
      <<40 * 16 - 2, 0, 43981>> }

\* storeb array index value: the last byte of dynamic memory, the first
\* and the last byte of static memory
StaticStorebArgs ==
    { <<34 * 16 - 1, 0, 9>>, <<34 * 16, 0, 9>>, <<0, 34 * 16, 9>>,
      <<40 * 16 - 1, 0, 9>> }

StaticStorew ==
    \E a \in StaticStorewArgs :
        Does("storew", QInstr(None), a, None, op_storew(Z, QInstr(None), a))

StaticStoreb ==
    \E a \in StaticStorebArgs :
        Does("storeb", QInstr(None), a, None, op_storeb(Z, QInstr(None), a))

\* a write of the last global variable, 255
StaticWriteGlobal ==
    \E v \in PushValues :
        Does("write_variable", NoInstr, <<255, v>>, None,
             write_variable(Z, 255, v))

NextStatic ==
    /\ Running
    /\ steps < MaxStaticSteps
    /\ \/ StaticStorew
       \/ StaticStoreb
       \/ StaticWriteGlobal

SpecStatic == Init /\ [][NextStatic]_vars

\* C37: static memory is never modified: after any sequence of stores,
\* every byte at an address from the static memory address of the loaded
\* story on has the value it had at load
C37_StaticUnchanged ==
    \A a \in DOMAIN memory :
        a >= header_static_memory_addr(Story(version)) =>
            memory[a] = Story(version)[a]

\* ---------------------------------------------------------------------
\* Operand resolution
\* ---------------------------------------------------------------------

RECURSIVE get_arguments_loop_RightToLeft(_, _, _, _, _)
\* a resolution that reads the operands from the last to the first
get_arguments_loop_RightToLeft(z, operands, optypes, i, arguments) ==
    LET k == Len(operands) + 1 - i
    IN  IF i > Len(operands) THEN [z |-> z, val |-> arguments]
        ELSE IF optypes[k] = "VARIABLE"
        THEN LET r == read_variable(z, operands[k])
             IN  IF r.z.exc # "" THEN [z |-> r.z, val |-> None]
                 ELSE get_arguments_loop_RightToLeft(
                          r.z, operands, optypes, i + 1,
                          <<r.val>> \o arguments)
        ELSE get_arguments_loop_RightToLeft(z, operands, optypes, i + 1,
                                            <<operands[k]>> \o arguments)

RECURSIVE get_arguments_loop(_, _, _, _, _)
\* the for loop of get_arguments from operand i on; an exception of
\* read_variable ends it
get_arguments_loop(z, operands, optypes, i, arguments) ==
    IF i > Len(operands) THEN [z |-> z, val |-> arguments]
    ELSE IF i > Len(optypes) THEN [z |-> Raise(z, "IndexError"), val |-> None]
    ELSE IF optypes[i] = "VARIABLE"
    THEN LET r == read_variable(z, operands[i])
         IN  IF r.z.exc # "" THEN [z |-> r.z, val |-> None]
             ELSE get_arguments_loop(r.z, operands, optypes, i + 1,
                                     Append(arguments, r.val))
    ELSE get_arguments_loop(z, operands, optypes, i + 1,
                            Append(arguments, operands[i]))

get_arguments(z, operands, optypes) ==
    get_arguments_loop(z, operands, optypes, 1, <<>>)

MaxArgsSteps == 3

ArgsPushValues == {11, 22}

\* operands and operand types as the decoder delivers them
ArgsFixtures ==
    { <<<<0, 0>>, <<"VARIABLE", "VARIABLE">>>>,
      <<<<0, 0>>, <<"SMALL", "VARIABLE">>>>,
      <<<<0, 7, 0>>, <<"VARIABLE", "SMALL", "VARIABLE">>>>,
      <<<<16, 0>>, <<"VARIABLE", "VARIABLE">>>>,
      <<<<0>>, <<"LARGE">>>>,
      <<<<99>>, <<"SMALL">>>>,
      <<<<4 * 256, 16>>, <<"LARGE", "SMALL">>>>,
      <<<<1>>, <<"VARIABLE">>>> }

ArgsPush ==
    \E v \in ArgsPushValues :
        Does("push", Instr(None, NoBranch, 256), <<v>>, None,
             op_push(Z, Instr(None, NoBranch, 256), <<v>>))

GetArguments ==
    \E f \in ArgsFixtures :
        LET r == get_arguments(Z, f[1], f[2])
        IN  Does("get_arguments", NoInstr, f, r.val, r.z)

NextArgs ==
    /\ Running
    /\ steps < MaxArgsSteps
    /\ \/ ArgsPush
       \/ GetArguments

SpecArgs == Init /\ [][NextArgs]_vars

\* the number of VARIABLE operands naming variable 0 among the first i
C38_Pops(operands, optypes, i) ==
    Cardinality({j \in 1..i : optypes[j] = "VARIABLE" /\ operands[j] = 0})

\* the argument operand i must resolve to, given the machine before
C38_Arg(z, operands, optypes, i) ==
    IF optypes[i] # "VARIABLE" THEN operands[i]
    ELSE IF operands[i] = 0
    THEN Top(z).stack[Len(Top(z).stack) + 1 - C38_Pops(operands, optypes, i)]
    ELSE read_variable(z, operands[i]).val

\* C38: operands are resolved left to right and each VARIABLE operand
\* naming variable 0 pops the evaluation stack exactly once: the k-th such
\* operand receives the k-th value from the top, the stack is shorter by
\* their number afterwards (so it held that many), and nothing else
\* changes; SMALL and LARGE operands pass through as they are
C38_LeftToRight ==
    [][(op'.name = "get_arguments" /\ exc' = "") =>
        LET operands == op'.args[1]
            optypes  == op'.args[2]
            n        == C38_Pops(operands, optypes, Len(operands))
        IN  /\ n <= Len(Top(Z).stack)
            /\ Len(op'.val) = Len(operands)
            /\ \A i \in 1..Len(operands) :
                   op'.val[i] = C38_Arg(Z, operands, optypes, i)
            /\ Len(frames') = Len(frames)
            /\ frames' = [frames EXCEPT ![Len(frames)].stack =
                              SubSeq(@, 1, Len(@) - n)]
            /\ memory' = memory
            /\ pc' = pc]_vars

\* two variable-0 operands were resolved after 11 and then 22 were pushed
C38_Witness ==
    /\ op.name = "get_arguments"
    /\ exc = ""
    /\ op.args = <<<<0, 0>>, <<"VARIABLE", "VARIABLE">>>>
    /\ op.val = <<22, 11>>
    /\ steps = 3
    /\ Top(Z).stack = <<>>

\* ---------------------------------------------------------------------
\* Shift characters in unpack_string
\* ---------------------------------------------------------------------

ShiftVersions == {1, 2, 3, 5}

\* space, the shift characters of the version and one alphabet character
\* (8 is "c" in A0, "C" in A1 and a digit in A2)
ShiftChars(v) == IF v < 3 THEN {0, 2, 3, 4, 5, 8} ELSE {0, 4, 5, 8}

MaxShiftLen == 4

ShiftTexts(v) ==
    UNION {[1..n -> ShiftChars(v)] : n \in 1..MaxShiftLen}

\* the words of a packed string holding the characters t: three to a
\* word, the last word filled with 5 and carrying the end bit
ShiftWords(t) ==
    LET n == (Len(t) + 2) \div 3
        c(i) == IF i <= Len(t) THEN t[i] ELSE 5
    IN  [k \in 1..n |->
            c(3 * k - 2) * 1024 + c(3 * k - 1) * 32 + c(3 * k)
              + (IF k = n THEN 32768 ELSE 0)]

MaxShiftSteps == 1

InitShift == \E v \in ShiftVersions : ZMachine_init(v)

UnpackString ==
    \E t \in ShiftTexts(version) :
        LET r == unpack_string(Z, ShiftWords(t), {})
        IN  Does("unpack_string", NoInstr, <<ShiftWords(t)>>, r.text,
                 [Z EXCEPT !.exc = r.exc])

NextShift ==
    /\ Running
    /\ steps < MaxShiftSteps
    /\ UnpackString

SpecShift == InitShift /\ [][NextShift]_vars

\* the alphabet a shift character leads to from the alphabet cur:
\* 2 and 4 go A0 -> A1 -> A2 -> A0, 3 and 5 go A0 -> A2 -> A1 -> A0
C39_Rotate(A, char, cur) ==
    LET k == CHOOSE i \in 0..2 : <<A.A0, A.A1, A.A2>>[i + 1] = cur
        d == IF char \in {2, 4} THEN 1 ELSE 2
    IN  <<A.A0, A.A1, A.A2>>[((k + d) % 3) + 1]

RECURSIVE C39_Text(_, _, _, _, _, _)
\* the text of the characters under the shift rules: cur is the alphabet
\* in force, back the alphabet a pending temporary shift reverts to, and
\* temp tells whether a temporary shift is pending.  Only an
\* alphabet-indexing character uses a pending shift up.
C39_Text(v, A, chars, cur, back, temp) ==
    IF Len(chars) = 0 THEN <<>>
    ELSE
    LET char == Head(chars)
        rest == Tail(chars)
    IN  IF char = 0
        THEN <<32>> \o C39_Text(v, A, rest, cur, back, temp)
        ELSE IF v < 3 /\ char \in {2, 3}
        THEN C39_Text(v, A, rest, C39_Rotate(A, char, cur), cur, TRUE)
        ELSE IF v < 3 /\ char \in {4, 5}
        THEN C39_Text(v, A, rest, C39_Rotate(A, char, cur), cur, FALSE)
        ELSE IF char = 4 THEN C39_Text(v, A, rest, A.A1, A.A0, TRUE)
        ELSE IF char = 5 THEN C39_Text(v, A, rest, A.A2, A.A0, TRUE)
        ELSE <<cur[char - 5]>>
               \o C39_Text(v, A, rest, IF temp THEN back ELSE cur, back,
                           FALSE)

\* C39: a temporary shift lasts for exactly one alphabet-indexing
\* character: the next alphabet character after the shift is taken from
\* the shifted alphabet and the alphabet then is the one in force before
\* the shift (A0 in v3+), while 4 and 5 in v1/v2 lock the rotated alphabet
C39_TemporaryShift ==
    op.name = "unpack_string" =>
        /\ exc = ""
        /\ op.val = C39_Text(version, Alphabets(Z), split_text(op.args[1]),
                             Alphabets(Z).A0, Alphabets(Z).A0, FALSE)

\* ---------------------------------------------------------------------
\* The store byte of opcode 143
\* ---------------------------------------------------------------------

\* the bytes the one operand of a 1OP instruction takes
C40_OperandBytes(r) == IF r.optypes[1] = "LARGE" THEN 2 ELSE 1

\* C40: the decoder reads a store byte exactly when the opcode stores in
\* the running version: in v5+ opcode 143 is call_1n, so the decoded
\* instruction has no store variable and its next PC follows the operand
\* at once; in v1-4 it is not, whose store byte follows the operand
C40_StoreByVersion ==
    (op.name = "decode" /\ exc = "" /\ op.val.opcode = 143) =>
        LET r == op.val
            after == r.addr + 1 + C40_OperandBytes(r)
        IN  IF version >= 5
            THEN r.store = None /\ r.next_ = after
            ELSE r.store = memory[after] /\ r.next_ = after + 1

====
